---- MODULE Spec2Model ----
(***************************************************************************)
(* Grouping and identity resolution of EU funding call records.            *)
(*                                                                         *)
(* Part 1 models the string and JSON helpers shared by                     *)
(* build_calls_grouped.py and programme_groupers.py.  Part 2 models the    *)
(* pure strategies of programme_groupers.py.  Part 3 models main() of      *)
(* build_calls_grouped.py as a state machine: the grouping loop, the       *)
(* singleton reconciliation and the final sort.                            *)
(* Part 7 models split_calls_by_cluster.py (destination index, alias       *)
(* merge, retitling, programme split) and Part 9 runs main() of            *)
(* build_calls_grouped.py on two orders of the same input.  Part 10 models *)
(* extract_budget and the float() conversion it relies on.                 *)
(* Part 12 starts the singleton reconciliation from grouped mappings that  *)
(* the grouping loop can leave, and Part 14 models fetch_with_retries of   *)
(* fetch_api_batch.py.                                                     *)
(*                                                                         *)
(* Python strings are TLA+ strings; TLC evaluates Len, SubSeq and \o on    *)
(* them, so prefixes, suffixes, substrings and splits are computed on the  *)
(* characters as the code computes them.                                   *)
(***************************************************************************)
EXTENDS Integers, Sequences, FiniteSets, TLC

(***************************************************************************)
(* Part 1a. Characters and strings.                                        *)
(***************************************************************************)

\* The characters of the modelled inputs, in code-point order (the order
\* Python compares strings by).
Alphabet == " &-0123456789ABCDEFGHIJKLMNOPQRSTUVWXYZ_abcdefghijklmnopqrstuvwxyz|"

Upper == "ABCDEFGHIJKLMNOPQRSTUVWXYZ"

LowerCase == "abcdefghijklmnopqrstuvwxyz"

Digits == "0123456789"

Char(s, i) == SubSeq(s, i, i)

\* c occurs in the string t.
InStr(c, t) == \E i \in 1..Len(t) : Char(t, i) = c

\* Position of the one-character string c in t (0 when absent).
IndexOf(c, t) == IF InStr(c, t) THEN CHOOSE i \in 1..Len(t) : Char(t, i) = c ELSE 0

\* str.isspace for one character.
IsSpace(c) == c \in {" ", "\t", "\n", "\r"}

\* str.startswith
StartsWith(s, p) == Len(s) >= Len(p) /\ SubSeq(s, 1, Len(p)) = p

\* str.endswith
EndsWith(s, p) == Len(s) >= Len(p) /\ SubSeq(s, Len(s) - Len(p) + 1, Len(s)) = p

\* `p in s` for strings.
Contains(s, p) == \E i \in 1..(Len(s) - Len(p) + 1) : SubSeq(s, i, i + Len(p) - 1) = p

RECURSIVE LStrip(_)
LStrip(s) == IF Len(s) > 0 /\ IsSpace(Char(s, 1)) THEN LStrip(Tail(s)) ELSE s

RECURSIVE RStrip(_)
RStrip(s) == IF Len(s) > 0 /\ IsSpace(Char(s, Len(s)))
             THEN RStrip(SubSeq(s, 1, Len(s) - 1)) ELSE s

\* str.strip()
Strip(s) == RStrip(LStrip(s))

\* re.sub(r"\s+", " ", s): every run of whitespace becomes one space.
RECURSIVE CollapseSpace(_)
CollapseSpace(s) ==
    IF Len(s) = 0 THEN ""
    ELSE IF IsSpace(Char(s, 1))
         THEN " " \o CollapseSpace(LStrip(s))
         ELSE Char(s, 1) \o CollapseSpace(Tail(s))

\* The characters of a string, as a set.
CharsOf(t) == {Char(t, i) : i \in 1..Len(t)}

UpperChars == CharsOf(Upper)

AlnumChars == CharsOf(LowerCase) \cup CharsOf(Digits)

\* str.lower() for one character and for a string.
LowerChar(c) == IF c \in UpperChars THEN Char(LowerCase, IndexOf(c, Upper)) ELSE c

RECURSIVE Lower(_)
Lower(s) == IF Len(s) = 0 THEN "" ELSE LowerChar(Char(s, 1)) \o Lower(Tail(s))

\* str.isdigit(): non-empty and every character a digit.
IsDigitStr(s) == Len(s) > 0 /\ \A i \in 1..Len(s) : InStr(Char(s, i), Digits)

\* str.split(sep) for a one-character sep: the pieces, empty ones included.
RECURSIVE SplitOn(_, _)
SplitOn(s, sep) ==
    IF ~InStr(sep, s) THEN <<s>>
    ELSE LET i == CHOOSE k \in 1..Len(s) :
                     Char(s, k) = sep /\ \A j \in 1..(k - 1) : Char(s, j) # sep
         IN  <<SubSeq(s, 1, i - 1)>> \o SplitOn(SubSeq(s, i + 1, Len(s)), sep)

\* [p for p in xs if p]
RECURSIVE NonEmpty(_)
NonEmpty(xs) ==
    IF xs = <<>> THEN <<>>
    ELSE IF Head(xs) = "" THEN NonEmpty(Tail(xs))
         ELSE <<Head(xs)>> \o NonEmpty(Tail(xs))

\* sep.join(xs)
RECURSIVE Join(_, _)
Join(xs, sep) ==
    IF xs = <<>> THEN ""
    ELSE IF Len(xs) = 1 THEN Head(xs)
         ELSE Head(xs) \o sep \o Join(Tail(xs), sep)

\* xs[:n]
Take(xs, n) == SubSeq(xs, 1, IF Len(xs) < n THEN Len(xs) ELSE n)

\* The position in Alphabet of each of its characters.
Rank == [c \in {Char(Alphabet, i) : i \in 1..Len(Alphabet)} |-> IndexOf(c, Alphabet)]

\* The position of the character c in Alphabet (0 when absent).
CharRank(c) == IF c \in DOMAIN Rank THEN Rank[c] ELSE 0

\* Python's string order: a < b, compared character by character.
RECURSIVE StrLess(_, _)
StrLess(a, b) ==
    IF Len(b) = 0 THEN FALSE
    ELSE IF Len(a) = 0 THEN TRUE
    ELSE IF Char(a, 1) = Char(b, 1) THEN StrLess(Tail(a), Tail(b))
    ELSE CharRank(Char(a, 1)) < CharRank(Char(b, 1))

(***************************************************************************)
(* Part 1b. JSON values.  A value of a JSON field is null/absent, a string *)
(* or a list of strings; every value has the same three fields so that any *)
(* two values can be compared.  A key that is absent and a key whose value *)
(* is null behave alike under dict.get, and are both NoneV.                *)
(***************************************************************************)

NoneV == [t |-> "none", s |-> "", l |-> <<>>]

StrV(a) == [t |-> "str", s |-> a, l |-> <<>>]

ListV(xs) == [t |-> "list", s |-> "", l |-> xs]

\* Python truthiness of a value.
Truthy(v) == (v.t = "str" /\ v.s # "") \/ (v.t = "list" /\ v.l # <<>>)

\* `a or b`
OrV(a, b) == IF Truthy(a) THEN a ELSE b

\* repr of a list of strings, as str(list) prints it.
RECURSIVE QuoteAll(_)
QuoteAll(xs) == IF xs = <<>> THEN <<>> ELSE <<"'" \o Head(xs) \o "'">> \o QuoteAll(Tail(xs))

\* safe_str: None -> "", a string -> itself, anything else -> str(x).
safe_str(v) ==
    IF v.t = "none" THEN ""
    ELSE IF v.t = "str" THEN v.s
    ELSE "[" \o Join(QuoteAll(v.l), ", ") \o "]"

\* first: the first element of a list (default when empty), the value
\* itself when it is not None, else the default.
first(v, default) ==
    IF v.t = "list" THEN (IF v.l # <<>> THEN StrV(v.l[1]) ELSE default)
    ELSE IF v.t # "none" THEN v ELSE default

\* normalize_space: whitespace runs collapsed, then stripped.
normalize_space(s) == Strip(CollapseSpace(s))

\* The metadata mapping: the keys the grouping code reads.
MetaKeys == <<"callIdentifier", "callTitle", "callccm2Id", "destinationDescription",
              "identifier", "language", "programmeDivision", "title", "type", "url">>

\* {} (also: no metadata at all).
EmptyMeta == [k \in {MetaKeys[i] : i \in 1..Len(MetaKeys)} |-> NoneV]

\* bool(meta) for a dict: it has at least one key.
NonEmptyMeta(m) == \E k \in DOMAIN m : m[k] # NoneV

\* The top-level keys of a wrapper that the code reads, in sorted order.
\* "metadata" is the wrapper's own metadata (Search API shape), "rawmeta"
\* is raw.metadata (fetched-topic shape).
TopKeys == <<"contentType", "identifier", "language", "summary", "title", "type", "url">>

\* A wrapper that is a mapping with no keys.
EmptyWrapper ==
    [isdict |-> TRUE, contentType |-> NoneV, identifier |-> NoneV, language |-> NoneV,
     summary |-> NoneV, title |-> NoneV, type |-> NoneV, url |-> NoneV,
     metadata |-> EmptyMeta, rawmeta |-> EmptyMeta]

\* A list element of the input that is not a mapping (a string, a number).
NotADict == [EmptyWrapper EXCEPT !.isdict = FALSE]

(***************************************************************************)
(* json.dumps(wrapper, sort_keys=True), with the default separators.       *)
(***************************************************************************)

JsonStr(a) == "\"" \o a \o "\""

RECURSIVE JsonStrs(_)
JsonStrs(xs) == IF xs = <<>> THEN <<>> ELSE <<JsonStr(Head(xs))>> \o JsonStrs(Tail(xs))

JsonValue(v) ==
    IF v.t = "str" THEN JsonStr(v.s) ELSE "[" \o Join(JsonStrs(v.l), ", ") \o "]"

\* The "key": value items of the keys present in f, in the order of keys.
RECURSIVE JsonItems(_, _)
JsonItems(f, keys) ==
    IF keys = <<>> THEN <<>>
    ELSE IF f[Head(keys)] = NoneV THEN JsonItems(f, Tail(keys))
    ELSE <<JsonStr(Head(keys)) \o ": " \o JsonValue(f[Head(keys)])>>
         \o JsonItems(f, Tail(keys))

JsonMeta(m) == "{" \o Join(JsonItems(m, MetaKeys), ", ") \o "}"

\* Sorted top-level keys: contentType, identifier, language, metadata, raw,
\* summary, title, type, url.
JsonDumps(w) ==
    "{" \o Join(
        JsonItems(w, <<"contentType", "identifier", "language">>)
        \o (IF NonEmptyMeta(w.metadata) THEN <<"\"metadata\": " \o JsonMeta(w.metadata)>> ELSE <<>>)
        \o (IF NonEmptyMeta(w.rawmeta)
            THEN <<"\"raw\": {\"metadata\": " \o JsonMeta(w.rawmeta) \o "}">> ELSE <<>>)
        \o JsonItems(w, <<"summary", "title", "type", "url">>), ", ") \o "}"

(***************************************************************************)
(* Part 2. programme_groupers.py: the strategies.                          *)
(***************************************************************************)

\* The result of a call: a returned string, or the exception it raised.
Ret(v) == [raised |-> "", v |-> v]

Raised(e) == [raised |-> e, v |-> ""]

\* BaseProgrammeGrouper.get_metadata
get_metadata(w) ==
    IF NonEmptyMeta(w.metadata) THEN w.metadata
    ELSE IF NonEmptyMeta(w.rawmeta) THEN w.rawmeta
    ELSE EmptyMeta

\* BaseProgrammeGrouper.get_language
get_language(w) ==
    Strip(safe_str(first(get_metadata(w).language, OrV(w.language, StrV("")))))

\* The identifier as every strategy reads it.
GrouperIdent(w) ==
    Strip(safe_str(first(get_metadata(w).identifier, OrV(w.identifier, StrV("")))))

\* A variant of unique_record_key that ignores the url.
BaseUniqueRecordKeyWithoutUrl(w) ==
    LET meta     == get_metadata(w)
        typ      == Strip(safe_str(OrV(w.type, OrV(w.contentType, StrV("")))))
        ident    == GrouperIdent(w)
        callccm2 == Strip(safe_str(first(meta.callccm2Id, StrV(""))))
        lang     == IF get_language(w) # "" THEN get_language(w) ELSE "und"
    IN  IF ident # "" /\ callccm2 # ""
        THEN typ \o "|" \o ident \o "|" \o callccm2 \o "|" \o lang
        ELSE IF ident # ""
        THEN typ \o "|" \o ident \o "|" \o lang
        ELSE JsonDumps(w)

\* BaseProgrammeGrouper.unique_record_key
BaseUniqueRecordKey(w) ==
    LET meta     == get_metadata(w)
        typ      == Strip(safe_str(OrV(w.type, OrV(w.contentType, StrV("")))))
        ident    == GrouperIdent(w)
        callccm2 == Strip(safe_str(first(meta.callccm2Id, StrV(""))))
        lang     == IF get_language(w) # "" THEN get_language(w) ELSE "und"
        url      == Strip(safe_str(first(meta.url, OrV(w.url, StrV("")))))
    IN  IF ident # "" /\ callccm2 # ""
        THEN typ \o "|" \o ident \o "|" \o callccm2 \o "|" \o lang
        ELSE IF ident # ""
        THEN (IF url # "" THEN typ \o "|" \o ident \o "|" \o url \o "|" \o lang
                          ELSE typ \o "|" \o ident \o "|" \o lang)
        ELSE JsonDumps(w)

\* HorizonProgrammeGrouper.group_value.  _extract_horizon_group_code is
\* called at line 314 and is neither defined nor imported in the module, so
\* the call raises NameError.
HorizonGroupValue(w) ==
    LET meta  == get_metadata(w)
        ident == GrouperIdent(w)
        parts == NonEmpty(SplitOn(ident, "-"))
        ci    == Strip(safe_str(first(meta.callIdentifier, StrV(""))))
    IN  IF ident = "" THEN Ret("")
        ELSE IF StartsWith(ident, "ERC-") \/ StartsWith(ident, "HORIZON-ERC-") THEN Ret("ERC")
        ELSE IF StartsWith(ident, "MSCA-") \/ StartsWith(ident, "HORIZON-MSCA-") THEN Ret("MSCA")
        ELSE IF StartsWith(ident, "INFRA-") \/ StartsWith(ident, "HORIZON-INFRA-") THEN Ret("INFRA")
        ELSE IF StartsWith(ident, "HORIZON-EIC-") THEN Ret("EIC")
        ELSE IF StartsWith(ident, "HORIZON-EIE-") THEN Ret("EIE")
        ELSE IF StartsWith(ident, "HORIZON-CL") \/ StartsWith(ident, "HORIZON-MISS-")
             THEN Raised("NameError")
        ELSE IF StartsWith(ident, "HORIZON-") /\ Len(parts) >= 2 THEN Ret(parts[2])
        ELSE IF ci # "" THEN Ret(ci)
        ELSE Ret(Strip(safe_str(first(meta.callTitle, StrV("")))))

\* HorizonProgrammeGrouper.fallback_group_value
HorizonFallbackGroupValue(w) == "_unknown_group"

\* A variant of _derive_call_family_from_identifier that keeps four segments
\* only under a DIGITAL first segment and three under any other.
DeriveCallFamilyDigitalOnly(identifier) ==
    LET ident == normalize_space(identifier)
        parts == NonEmpty(SplitOn(ident, "-"))
    IN  IF ident = "" THEN ""
        ELSE IF Len(parts) < 2 THEN ident
        ELSE IF Len(parts) >= 4 /\ parts[1] = "DIGITAL" THEN Join(Take(parts, 4), "-")
        ELSE IF Len(parts) >= 4 THEN Join(Take(parts, 3), "-")
        ELSE ident

\* _derive_call_family_from_identifier
DeriveCallFamilyFromIdentifier(identifier) ==
    LET ident == normalize_space(identifier)
        parts == NonEmpty(SplitOn(ident, "-"))
    IN  IF ident = "" THEN ""
        ELSE IF Len(parts) < 2 THEN ident
        ELSE IF Len(parts) >= 4 /\ parts[1] = "DIGITAL" /\ IsDigitStr(parts[2])
             THEN Join(Take(parts, 4), "-")
        ELSE IF Len(parts) >= 4 /\ parts[1] = "DIGITAL" /\ parts[2] \in {"ECCC", "JU"}
             THEN Join(Take(parts, 4), "-")
        ELSE IF Len(parts) >= 4 THEN Join(Take(parts, 4), "-")
        ELSE ident

\* DepProgrammeGrouper.group_value
DepGroupValue(w) ==
    LET meta  == get_metadata(w)
        ci    == Strip(safe_str(first(meta.callIdentifier, StrV(""))))
        ident == GrouperIdent(w)
    IN  IF ci # "" THEN ci
        ELSE IF ident # "" THEN DeriveCallFamilyFromIdentifier(ident)
        ELSE Strip(safe_str(first(meta.callTitle, StrV(""))))

\* ",".join([safe_str(x) for x in pd if safe_str(x)]) for a non-empty list.
ProgrammeDivisionJoined(pd) == Join(NonEmpty(pd), ",")

\* DepProgrammeGrouper.fallback_group_value
DepFallbackGroupValue(w) ==
    LET meta == get_metadata(w)
        pd   == meta.programmeDivision
    IN  IF pd.t = "list" /\ pd.l # <<>> THEN ProgrammeDivisionJoined(pd.l)
        ELSE Strip(safe_str(first(meta.callTitle, StrV(""))))

\* any(x in ident for x in ["-PEX-", "-PE-", "-EUR-UNIV", "-EMJM-", "ECHE"])
ErasmusExcellenceMarker(ident) ==
    \E m \in {"-PEX-", "-PE-", "-EUR-UNIV", "-EMJM-", "ECHE"} : Contains(ident, m)

\* A variant of ErasmusEduProgrammeGrouper.group_value whose SPORT sub-rules
\* test the -CB suffix before the sport events.
ErasmusGroupValueSuffixFirst(w) ==
    LET meta  == get_metadata(w)
        ident == GrouperIdent(w)
        title == Lower(Strip(safe_str(first(meta.title, OrV(w.title, StrV(""))))))
    IN  IF StartsWith(ident, "ERASMUS-JMO-") THEN "Jean Monnet Actions"
        ELSE IF StartsWith(ident, "ERASMUS-SPORT-")
        THEN (IF EndsWith(ident, "-CB") THEN "Sport Capacity Building"
              ELSE IF Contains(title, "sport events") \/ EndsWith(ident, "-SNCESE")
              THEN "Sport Events"
              ELSE "Sport Partnerships")
        ELSE IF StartsWith(ident, "ERASMUS-YOUTH-") THEN "Youth Actions"
        ELSE IF StartsWith(ident, "ERASMUS-EDU-") THEN "Education Other Actions"
        ELSE "Other ERASMUS Actions"

\* ErasmusEduProgrammeGrouper.group_value
ErasmusGroupValue(w) ==
    LET meta  == get_metadata(w)
        ident == GrouperIdent(w)
        title == Lower(Strip(safe_str(first(meta.title, OrV(w.title, StrV(""))))))
    IN  IF StartsWith(ident, "ERASMUS-JMO-") THEN "Jean Monnet Actions"
        ELSE IF StartsWith(ident, "ERASMUS-SPORT-")
        THEN (IF Contains(title, "sport events") \/ EndsWith(ident, "-SNCESE") THEN "Sport Events"
              ELSE IF EndsWith(ident, "-CB") THEN "Sport Capacity Building"
              ELSE "Sport Partnerships")
        ELSE IF StartsWith(ident, "ERASMUS-YOUTH-")
        THEN (IF Contains(ident, "-CB-") \/ Contains(title, "capacity building")
              THEN "Youth Capacity Building"
              ELSE "Youth Actions")
        ELSE IF StartsWith(ident, "ERASMUS-EDU-")
        THEN (IF Contains(ident, "-POL-EXP-") THEN "Policy Experimentation"
              ELSE IF Contains(ident, "-PI-") THEN "Alliances & Policy Innovation"
              ELSE IF Contains(ident, "-PCOOP-") THEN "Cooperation Partnerships"
              ELSE IF Contains(ident, "-CBHE-") THEN "Capacity Building in Higher Education"
              ELSE IF Contains(ident, "-CB-VET-") THEN "Capacity Building in VET"
              ELSE IF Contains(ident, "-VIRT-EXCH-") THEN "Virtual Exchanges"
              ELSE IF \/ ErasmusExcellenceMarker(ident)
                      \/ Contains(title, "european universities")
                      \/ Contains(title, "erasmus mundus")
                      \/ Contains(title, "charter for higher education")
                      \/ Contains(title, "european degree")
                   THEN "Higher Education Excellence"
              ELSE "Education Other Actions")
        ELSE "Other ERASMUS Actions"

\* ErasmusEduProgrammeGrouper.fallback_group_value
ErasmusFallbackGroupValue(w) ==
    LET ident == GrouperIdent(w)
        parts == NonEmpty(SplitOn(ident, "-"))
    IN  IF StartsWith(ident, "ERASMUS-") /\ Len(parts) >= 2
        THEN parts[1] \o "-" \o parts[2]
        ELSE "Other ERASMUS Actions"

(***************************************************************************)
(* Part 3a. build_calls_grouped.py: the functions main() calls.            *)
(***************************************************************************)

\* result.get("metadata") or {}
ResultMeta(res) == res.metadata

\* A variant of unique_record_key that keys a record on its type and
\* identifier alone.
unique_record_key_by_identifier(res) ==
    LET meta  == ResultMeta(res)
        typ   == Strip(safe_str(first(meta.type, res.type)))
        ident == Strip(safe_str(first(meta.identifier, StrV(""))))
    IN  Join(<<typ, ident>>, "|")

\* unique_record_key of build_calls_grouped.py
unique_record_key(res) ==
    LET meta     == ResultMeta(res)
        typ      == Strip(safe_str(first(meta.type, res.type)))
        ident    == Strip(safe_str(first(meta.identifier, StrV(""))))
        callccm2 == Strip(safe_str(first(meta.callccm2Id, StrV(""))))
        l        == Strip(safe_str(first(meta.language, res.language)))
        lang     == IF l # "" THEN l ELSE "und"
    IN  Join(<<typ, ident, callccm2, lang>>, "|")

\* normalize_one of build_calls_grouped.py: the fields that the grouping,
\* the reconciliation and the sort read (the dates, budget and text fields
\* are copied into the record and never read again).
normalize_one(res) ==
    LET meta == ResultMeta(res)
        topic_title == Strip(safe_str(first(meta.title, StrV(""))))
    IN  [identifier         |-> Strip(safe_str(first(meta.identifier, StrV("")))),
         url                |-> Strip(safe_str(first(meta.url, StrV("")))),
         topic_title        |-> topic_title,
         call_title         |-> topic_title,
         call_section_title |-> Strip(safe_str(first(meta.callTitle, StrV("")))),
         unique_key         |-> "",
         group_key          |-> "",
         group_value        |-> ""]

\* derive_call_family_from_identifier of build_calls_grouped.py
derive_call_family_from_identifier(identifier) ==
    LET ident == normalize_space(identifier)
        parts == NonEmpty(SplitOn(ident, "-"))
    IN  IF ident = "" THEN ""
        ELSE IF Len(parts) < 2 THEN ident
        ELSE IF Len(parts) >= 4 /\ parts[1] = "DIGITAL" /\ IsDigitStr(parts[2])
             THEN Join(Take(parts, 4), "-")
        ELSE IF Len(parts) >= 4 /\ parts[1] = "DIGITAL" /\ parts[2] \in {"ECCC", "JU"}
             THEN Join(Take(parts, 4), "-")
        ELSE IF Len(parts) >= 4 THEN Join(Take(parts, 4), "-")
        ELSE ident

\* derive_call_family
derive_call_family(res) ==
    LET meta  == ResultMeta(res)
        ci    == Strip(safe_str(first(meta.callIdentifier, StrV(""))))
        ident == Strip(safe_str(first(meta.identifier, StrV(""))))
    IN  IF ci # "" THEN ci
        ELSE IF ident # "" THEN derive_call_family_from_identifier(ident)
        ELSE Strip(safe_str(first(meta.callTitle, StrV(""))))

\* get_group_value
get_group_value(res, group_by) ==
    LET meta == ResultMeta(res)
        pd   == meta.programmeDivision
        ci   == Strip(safe_str(first(meta.callIdentifier, StrV(""))))
    IN  IF group_by = "callTitle" THEN safe_str(first(meta.callTitle, StrV("")))
        ELSE IF group_by = "callIdentifier" THEN safe_str(first(meta.callIdentifier, StrV("")))
        ELSE IF group_by = "programmeDivision"
             THEN (IF pd.t = "list" /\ pd.l # <<>> THEN ProgrammeDivisionJoined(pd.l) ELSE "")
        ELSE IF group_by = "wpClass"
             THEN (IF ci # "" THEN ci ELSE safe_str(first(meta.callTitle, StrV(""))))
        ELSE IF group_by = "callFamily" THEN derive_call_family(res)
        ELSE IF group_by = "destinationDescription"
             THEN safe_str(first(meta.destinationDescription, StrV("")))
        ELSE ""

(***************************************************************************)
(* Part 3b. The inputs.                                                    *)
(***************************************************************************)

\* The longest input list of main().
MaxLen == 3

\* A metadata value as the Search API gives it: a one-element list.
AsList(a) == IF a = "" THEN NoneV ELSE ListV(<<a>>)

\* A metadata value as a plain string.
AsStr(a) == IF a = "" THEN NoneV ELSE StrV(a)

\* A plain string with whitespace around it.
Padded(a) == StrV(" " \o a \o "  ")

\* A Search API result: type, identifier, callccm2Id, language, callTitle,
\* callIdentifier and title in metadata, each a one-element list.
SearchResult(typ, ident, cc, lang, callTitle, callIdentifier, title) ==
    [EmptyWrapper EXCEPT
        !.metadata = [EmptyMeta EXCEPT
            !.type = AsList(typ), !.identifier = AsList(ident),
            !.callccm2Id = AsList(cc), !.language = AsList(lang),
            !.callTitle = AsList(callTitle), !.callIdentifier = AsList(callIdentifier),
            !.title = AsList(title)]]

\* The wrappers the input list of main() is drawn from.
Pool ==
    { \* two records of one call (same identifier, different callccm2Id)
      SearchResult("1", "DIGITAL-2026-AI-01-CLOUD", "11", "en", "AI", "", "Net data"),
      SearchResult("1", "DIGITAL-2026-AI-01-CLOUD", "12", "en", "AI", "", "Net"),
      \* the first record again, in another shape: plain strings with
      \* whitespace, type and language at the top level, other titles
      [EmptyWrapper EXCEPT
          !.type = StrV("1"), !.language = StrV("en"),
          !.metadata = [EmptyMeta EXCEPT
              !.identifier = Padded("DIGITAL-2026-AI-01-CLOUD"), !.callccm2Id = Padded("11"),
              !.callTitle = StrV("Skills"), !.title = StrV("Call: hub")]],
      \* the same identifier and callccm2Id under another type and with no
      \* language; alone in its group
      SearchResult("2", "DIGITAL-2026-AI-01-CLOUD", "11", "", "Skills", "", "net"),
      \* a record with no group value at all
      [EmptyWrapper EXCEPT
          !.metadata = [EmptyMeta EXCEPT
              !.identifier = ListV(<<"CEF-T-2026">>), !.callccm2Id = AsList("14|a"),
              !.language = AsList("b"), !.callTitle = StrV("   "),
              !.programmeDivision = ListV(<<>>), !.title = StrV("Ion trap")]],
      \* a record with a group value only from the fallback and no title
      \* tokens; its callccm2Id and language join to the same text as those
      \* of the record before
      [EmptyWrapper EXCEPT
          !.metadata = [EmptyMeta EXCEPT
              !.identifier = ListV(<<"CEF-T-2026">>), !.callccm2Id = AsList("14"),
              !.language = AsList("a|b"), !.callIdentifier = AsList("AI"),
              !.programmeDivision = ListV(<<"", "AI">>), !.title = StrV("An open")]],
      \* a blank identifier
      SearchResult("1", "  ", "11", "en", "AI", "", "Net data"),
      \* not a mapping
      NotADict }

\* The command lines of main(): --group-by, --fallback-group-by,
\* --drop-unknown, --unknown-key, --merge-singletons, --singletons-key and
\* --singleton-sim-threshold (the fraction thr_n/thr_d).
Config(gb, fb, drop, unknown, merge, skey, tn, td) ==
    [group_by |-> gb, fallback_group_by |-> fb, drop_unknown |-> drop,
     unknown_key |-> unknown, merge_singletons |-> merge, singletons_key |-> skey,
     thr_n |-> tn, thr_d |-> td]

Configs ==
    { Config("callTitle", "callIdentifier", FALSE, "_unknown_group", TRUE, "_other", 1, 2),
      Config("callTitle", "programmeDivision", FALSE, "_unknown_group", TRUE, "_other", 0, 1),
      Config("destinationDescription", "callTitle", FALSE, "_other", TRUE, "_other", 7, 25),
      Config("wpClass", "programmeDivision", TRUE, "_unknown_group", TRUE, "_other", 7, 25),
      Config("callFamily", "callIdentifier", FALSE, "_unknown_group", FALSE, "_other", 7, 25) }

(***************************************************************************)
(* Part 3c. build_calls_grouped.py: singleton reconciliation and the final *)
(* sort.                                                                   *)
(***************************************************************************)

\* The stopwords of _tokens.
Stopwords == {"call", "calls", "topic", "topics", "programme", "program",
              "action", "actions", "open", "forthcoming"}

\* re.sub(r"[^a-z0-9]+", " ", s): every character that is not a lower-case
\* letter or a digit becomes a space (a run of them one space; split()
\* does not tell the difference).
RECURSIVE NonAlnumToSpace(_)
NonAlnumToSpace(s) ==
    IF Len(s) = 0 THEN ""
    ELSE (IF Char(s, 1) \in AlnumChars THEN Char(s, 1) ELSE " ") \o NonAlnumToSpace(Tail(s))

\* The set of the elements of a sequence.
Range(xs) == {xs[i] : i \in 1..Len(xs)}

\* _tokens
Tokens(s) ==
    LET t == NonAlnumToSpace(Lower(normalize_space(s)))
    IN  {tok \in Range(NonEmpty(SplitOn(CollapseSpace(t), " "))) :
            Len(tok) >= 3 /\ tok \notin Stopwords}

\* The tokens of one record: topic_title and call_title.
ItemTokens(it) == Tokens(it.topic_title) \cup Tokens(it.call_title)

(***************************************************************************)
(* The grouped mapping: a defaultdict(list), which keeps its keys in       *)
(* insertion order.  It is the sequence of its (key, list) entries.        *)
(***************************************************************************)

Keys(g) == {g[i].k : i \in 1..Len(g)}

\* The position of key k in g (k is a key of g).
KeyPos(g, k) == CHOOSE i \in 1..Len(g) : g[i].k = k

\* grouped[k], which for a defaultdict is [] when k is not a key.
Items(g, k) == IF k \in Keys(g) THEN g[KeyPos(g, k)].items ELSE <<>>

\* grouped[k].append(it): a new key goes to the end.
DictAppend(g, k, it) ==
    IF k \in Keys(g)
    THEN [g EXCEPT ![KeyPos(g, k)].items = Append(@, it)]
    ELSE Append(g, [k |-> k, items |-> <<it>>])

\* del grouped[k]
DictDelete(g, k) ==
    LET i == KeyPos(g, k) IN SubSeq(g, 1, i - 1) \o SubSeq(g, i + 1, Len(g))

\* ctoks of _best_target: the tokens of the first 5 members of a group.
RepresentativeTokens(lst) ==
    UNION {ItemTokens(Take(lst, 5)[i]) : i \in 1..Len(Take(lst, 5))}

\* A variant of the loop of _best_target in which a later candidate with
\* the same score replaces the best one.
RECURSIVE BestScanLastWins(_, _, _, _, _, _)
BestScanLastWins(g, stoks, i, bk, bn, bd) ==
    IF i > Len(g) THEN [k |-> bk, n |-> bn, d |-> bd]
    ELSE LET lst   == g[i].items
             ctoks == RepresentativeTokens(lst)
             inter == Cardinality(stoks \cap ctoks)
             union == Cardinality(stoks \cup ctoks)
         IN  IF Len(lst) < 2 \/ ctoks = {} THEN BestScanLastWins(g, stoks, i + 1, bk, bn, bd)
             ELSE IF inter > 0 /\ inter * bd >= bn * union
                  THEN BestScanLastWins(g, stoks, i + 1, g[i].k, inter, union)
                  ELSE BestScanLastWins(g, stoks, i + 1, bk, bn, bd)

\* The loop of _best_target over grouped.items(), from entry i on, with the
\* best key and score so far; the score is the fraction bn/bd.  "" stands
\* for best_k = None.
RECURSIVE BestScan(_, _, _, _, _, _)
BestScan(g, stoks, i, bk, bn, bd) ==
    IF i > Len(g) THEN [k |-> bk, n |-> bn, d |-> bd]
    ELSE LET lst   == g[i].items
             ctoks == RepresentativeTokens(lst)
             inter == Cardinality(stoks \cap ctoks)
             union == Cardinality(stoks \cup ctoks)
         IN  IF Len(lst) < 2 \/ ctoks = {} THEN BestScan(g, stoks, i + 1, bk, bn, bd)
             ELSE IF inter * bd > bn * union
                  THEN BestScan(g, stoks, i + 1, g[i].k, inter, union)
                  ELSE BestScan(g, stoks, i + 1, bk, bn, bd)

\* A variant of _best_target that merges only above the threshold.
best_target_strict(g, single_item, tn, td) ==
    LET stoks == ItemTokens(single_item)
        best  == BestScan(g, stoks, 1, "", 0, 1)
    IN  IF stoks = {} THEN ""
        ELSE IF best.k # "" /\ best.n * td > tn * best.d THEN best.k
        ELSE ""

\* A variant of _best_target without the test of an empty token set, in
\* which a score of zero can be the best one.
best_target_zero_score(g, single_item, tn, td) ==
    LET stoks == ItemTokens(single_item)
        best  == BestScan(g, stoks, 1, "", -1, 1)
    IN  IF best.k # "" /\ best.n * td >= tn * best.d THEN best.k
        ELSE ""

\* _best_target: the key to merge into, "" for None.  The threshold is the
\* fraction tn/td.  `if best_k and ...` is false for the empty key too.
best_target(g, single_item, tn, td) ==
    LET stoks == ItemTokens(single_item)
        best  == BestScan(g, stoks, 1, "", 0, 1)
    IN  IF stoks = {} THEN ""
        ELSE IF best.k # "" /\ best.n * td >= tn * best.d THEN best.k
        ELSE ""

\* The key of the final sort: (identifier, unique_key).
SortKeyLess(a, b) ==
    \/ StrLess(a.identifier, b.identifier)
    \/ a.identifier = b.identifier /\ StrLess(a.unique_key, b.unique_key)

\* list.sort(key=...): a stable sort.
RECURSIVE InsertSorted(_, _)
InsertSorted(xs, it) ==
    IF xs = <<>> THEN <<it>>
    ELSE IF SortKeyLess(it, Head(xs)) THEN <<it>> \o xs
    ELSE <<Head(xs)>> \o InsertSorted(Tail(xs), it)

RECURSIVE SortItems(_)
SortItems(xs) ==
    IF xs = <<>> THEN <<>>
    ELSE InsertSorted(SortItems(SubSeq(xs, 1, Len(xs) - 1)), xs[Len(xs)])

\* for k in list(grouped.keys()): grouped[k].sort(...)
SortAll(g) ==
    IF g = <<>> THEN <<>>
    ELSE [i \in 1..Len(g) |-> [k |-> g[i].k, items |-> SortItems(g[i].items)]]

(***************************************************************************)
(* Part 3d. main() of build_calls_grouped.py as a state machine.           *)
(***************************************************************************)

VARIABLES
    cfg,             \* args
    pc,              \* where main() is: "loop", "merge", "sort", "done" ("idle": not run)
    src,             \* the elements of the input list read so far
    seen,            \* seen
    grouped,         \* grouped
    singleton_keys,  \* the rest of singleton_keys
    last,            \* what the last step did (history)
    gin,             \* the record given to a strategy of programme_groupers.py
    gres,            \* the strategy called and its result
    \* main() of split_calls_by_cluster.py
    iargs,               \* args
    index_obj,           \* index_obj
    grouped_obj,         \* grouped_obj
    igrouped,            \* grouped
    code_to_info,        \* code_to_info
    alt_to_canonical,    \* alt_to_canonical
    anycode_to_info,     \* anycode_to_info
    merged_by_code,      \* merged_by_code
    key_resolution,      \* key_resolution
    titled_grouped,      \* titled_grouped
    code_to_title_used,  \* code_to_title_used
    split,               \* split
    \* extract_budget applied to one metadata mapping
    bmeta,           \* meta
    bout,            \* the function called and what it returned
    \* main() of build_calls_grouped.py run on a list and on a permutation of it
    shuffled,        \* the two input lists
    out_a,           \* the text written for the first list
    out_b,           \* the text written for the second list
    \* fetch_with_retries of fetch_api_batch.py
    call_identifier, \* call_identifier
    attempt,         \* attempt
    last_err,        \* last_err ("" for None)
    calls,           \* what each call of fetch_from_api did (history)
    fetched          \* what fetch_with_retries returned

pipeVars == <<cfg, src, seen, grouped, singleton_keys, last>>

grouperVars == <<gin, gres>>

indexVars == <<iargs, index_obj, grouped_obj, igrouped, code_to_info, alt_to_canonical,
               anycode_to_info, merged_by_code, key_resolution, titled_grouped,
               code_to_title_used, split>>

budgetVars == <<bmeta, bout>>

orderVars == <<shuffled, out_a, out_b>>

fetchVars == <<call_identifier, attempt, last_err, calls, fetched>>

vars == <<pc, pipeVars, grouperVars, indexVars, budgetVars, orderVars, fetchVars>>

\* split_calls_by_cluster.py is not running.
IndexIdle ==
    /\ iargs = <<>> /\ index_obj = <<>> /\ grouped_obj = <<>> /\ igrouped = <<>>
    /\ code_to_info = <<>> /\ alt_to_canonical = <<>> /\ anycode_to_info = <<>>
    /\ merged_by_code = <<>> /\ key_resolution = <<>> /\ titled_grouped = <<>>
    /\ code_to_title_used = <<>> /\ split = <<>>

\* extract_budget is not called.
BudgetIdle == bmeta = <<>> /\ bout = <<>>

\* No pair of runs is compared.
OrderIdle == shuffled = <<>> /\ out_a = "" /\ out_b = ""

\* fetch_with_retries is not called.
FetchIdle ==
    /\ call_identifier = "" /\ attempt = 0 /\ last_err = "" /\ calls = <<>> /\ fetched = <<>>

NoItem == normalize_one(EmptyWrapper)

\* A step of main(): what it did (op), the unique_key or singleton key it
\* was about (key), the record (item), the result of _best_target (target)
\* and the group the record was appended to (dest).
Step(op, key, item, target, dest) ==
    [op |-> op, key |-> key, item |-> item, target |-> target, dest |-> dest]

NoStep == Step("none", "", NoItem, "", "")

NoInput == [shape |-> "none", typ |-> "", ident |-> "", cc |-> "", url |-> "",
            lang |-> "", title |-> "", ci |-> "", ct |-> ""]

NoCall == [op |-> "none", out |-> Ret("")]

\* A variant of the group value that never drops a record.
GroupValueForIgnoringDropFlag(res, c) ==
    LET primary  == normalize_space(get_group_value(res, c.group_by))
        fallback == normalize_space(get_group_value(res, c.fallback_group_by))
    IN  IF primary # "" THEN [drop |-> FALSE, v |-> primary]
        ELSE IF fallback # "" THEN [drop |-> FALSE, v |-> fallback]
        ELSE [drop |-> FALSE, v |-> c.unknown_key]

\* The group value of one record (lines 229-235): drop is TRUE when the
\* record is dropped by --drop-unknown, else v is its group value.
GroupValueFor(res, c) ==
    LET primary  == normalize_space(get_group_value(res, c.group_by))
        fallback == normalize_space(get_group_value(res, c.fallback_group_by))
    IN  IF primary # "" THEN [drop |-> FALSE, v |-> primary]
        ELSE IF fallback # "" THEN [drop |-> FALSE, v |-> fallback]
        ELSE IF c.drop_unknown THEN [drop |-> TRUE, v |-> ""]
        ELSE [drop |-> FALSE, v |-> c.unknown_key]

\* A variant of the loop body without the test `ukey in seen`.
LoopOutcomeNoDedupe(res, c, sn) ==
    LET ukey == unique_record_key(res)
        norm == [normalize_one(res) EXCEPT !.unique_key = ukey]
        gv   == GroupValueFor(res, c)
    IN  IF ~res.isdict THEN Step("skip_not_mapping", "", NoItem, "", "")
        ELSE IF norm.identifier = "" THEN Step("skip_blank_identifier", ukey, norm, "", "")
        ELSE IF gv.drop THEN Step("drop_unknown", ukey, norm, "", "")
        ELSE Step("group", ukey,
                  [norm EXCEPT !.group_key = c.group_by, !.group_value = gv.v], "", gv.v)

\* A variant of the loop body that tests the identifier after seen.add.
LoopOutcomeLateBlankCheck(res, c, sn) ==
    LET ukey == unique_record_key(res)
        norm == [normalize_one(res) EXCEPT !.unique_key = ukey]
        gv   == GroupValueFor(res, c)
    IN  IF ~res.isdict THEN Step("skip_not_mapping", "", NoItem, "", "")
        ELSE IF ukey \in sn THEN Step("skip_duplicate", ukey, norm, "", "")
        ELSE IF norm.identifier = "" \/ gv.drop THEN Step("drop_unknown", ukey, norm, "", "")
        ELSE Step("group", ukey,
                  [norm EXCEPT !.group_key = c.group_by, !.group_value = gv.v], "", gv.v)

\* What one iteration of the grouping loop (lines 216-239) does with res,
\* sn being seen.
LoopOutcome(res, c, sn) ==
    LET ukey == unique_record_key(res)
        norm == [normalize_one(res) EXCEPT !.unique_key = ukey]
        gv   == GroupValueFor(res, c)
    IN  IF ~res.isdict THEN Step("skip_not_mapping", "", NoItem, "", "")
        ELSE IF norm.identifier = "" THEN Step("skip_blank_identifier", ukey, norm, "", "")
        ELSE IF ukey \in sn THEN Step("skip_duplicate", ukey, norm, "", "")
        ELSE IF gv.drop THEN Step("drop_unknown", ukey, norm, "", "")
        ELSE Step("group", ukey,
                  [norm EXCEPT !.group_key = c.group_by, !.group_value = gv.v], "", gv.v)

\* One iteration of `for res in src`.
LoopBody(res) ==
    /\ pc = "loop"
    /\ Len(src) < MaxLen
    /\ LET out == LoopOutcome(res, cfg, seen)
       IN  /\ last' = out
           /\ seen' = IF out.op \in {"drop_unknown", "group"} THEN seen \cup {out.key} ELSE seen
           /\ grouped' = IF out.op = "group" THEN DictAppend(grouped, out.dest, out.item)
                         ELSE grouped
    /\ src' = Append(src, res)
    /\ UNCHANGED <<cfg, pc, singleton_keys, gin, gres, indexVars, budgetVars, orderVars, fetchVars>>

\* [k for k, lst in grouped.items() if isinstance(lst, list) and len(lst) == 1]
RECURSIVE SingletonKeys(_)
SingletonKeys(g) ==
    IF g = <<>> THEN <<>>
    ELSE (IF Len(Head(g).items) = 1 THEN <<Head(g).k>> ELSE <<>>) \o SingletonKeys(Tail(g))

\* The input list is exhausted: line 241 and the snapshot of line 273.
EndLoop ==
    /\ pc = "loop"
    /\ IF cfg.merge_singletons /\ grouped # <<>> /\ SingletonKeys(grouped) # <<>>
       THEN pc' = "merge" /\ singleton_keys' = SingletonKeys(grouped)
       ELSE pc' = "sort" /\ singleton_keys' = <<>>
    /\ last' = NoStep
    /\ UNCHANGED <<cfg, src, seen, grouped, gin, gres, indexVars, budgetVars, orderVars, fetchVars>>

\* A variant of the reconciliation step without `del grouped[sk]`.
MergeOneKeepSingleton(g, sk, c) ==
    LET single_item == Items(g, sk)[1]
        target == best_target(g, single_item, c.thr_n, c.thr_d)
        dest == IF target # "" THEN target ELSE c.singletons_key
    IN  [g |-> DictAppend(g, dest, single_item),
         step |-> Step("merge", sk, single_item, target, dest)]

\* A variant of the reconciliation step that deletes the singleton group
\* only when a similarity target was found.
MergeOneDeleteWhenMerged(g, sk, c) ==
    LET single_item == Items(g, sk)[1]
        target == best_target(g, single_item, c.thr_n, c.thr_d)
        dest == IF target # "" THEN target ELSE c.singletons_key
    IN  [g |-> IF target # "" THEN DictDelete(DictAppend(g, dest, single_item), sk)
               ELSE DictAppend(g, dest, single_item),
         step |-> Step("merge", sk, single_item, target, dest)]

\* One iteration of `for sk in singleton_keys` (lines 274-281).
MergeOne(g, sk, c) ==
    LET single_item == Items(g, sk)[1]
        target == best_target(g, single_item, c.thr_n, c.thr_d)
        dest == IF target # "" THEN target ELSE c.singletons_key
    IN  [g |-> DictDelete(DictAppend(g, dest, single_item), sk),
         step |-> Step("merge", sk, single_item, target, dest)]

MergeStep ==
    /\ pc = "merge"
    /\ singleton_keys # <<>>
    /\ LET m == MergeOne(grouped, Head(singleton_keys), cfg)
       IN  grouped' = m.g /\ last' = m.step
    /\ singleton_keys' = Tail(singleton_keys)
    /\ pc' = IF Tail(singleton_keys) = <<>> THEN "sort" ELSE "merge"
    /\ UNCHANGED <<cfg, src, seen, gin, gres, indexVars, budgetVars, orderVars, fetchVars>>

\* Lines 283-288: every group is sorted and the output is written.
SortGroups ==
    /\ pc = "sort"
    /\ grouped' = SortAll(grouped)
    /\ pc' = "done"
    /\ last' = NoStep
    /\ UNCHANGED <<cfg, src, seen, singleton_keys, gin, gres, indexVars, budgetVars, orderVars, fetchVars>>

Init ==
    /\ cfg \in Configs
    /\ pc = "loop"
    /\ src = <<>>
    /\ seen = {}
    /\ grouped = <<>>
    /\ singleton_keys = <<>>
    /\ last = NoStep
    /\ gin = NoInput
    /\ gres = NoCall
    /\ IndexIdle /\ BudgetIdle /\ OrderIdle /\ FetchIdle

Next ==
    \/ \E res \in Pool : LoopBody(res)
    \/ EndLoop
    \/ MergeStep
    \/ SortGroups

Spec == Init /\ [][Next]_vars

(***************************************************************************)
(* Part 4. The strategies of programme_groupers.py, each applied to one    *)
(* record.  The record is built from its plain field values (gin) in one   *)
(* of the shapes the module documents.                                     *)
(***************************************************************************)

\* The identifiers given to the strategies.
GIdents ==
    { "", "ERC-2026-STG", "HORIZON-ERC-2026-COG", "MSCA-2026-PF-01",
      "HORIZON-MSCA-2026-DN-01", "INFRA-2026-DEV-01", "HORIZON-INFRA-2026-TECH-01",
      "HORIZON-EIC-2026-PATHFINDER-01", "HORIZON-EIE-2026-CONNECT-01",
      "HORIZON-CL2-2026-01-DEMOCRACY-01", "HORIZON-MISS-2026-01-OCEAN-01",
      "HORIZON-WIDERA-2026-ACCESS-01", "HORIZON-", "EIC-2026-X",
      "DIGITAL-2026-AI-01-CLOUD", "DIGITAL-ECCC-2026-DEPLOY-CYBER-01",
      "DIGITAL-2026-AI", "CEF-T-2026-SIMPLE-01", "CEF--T-2026-MIX--01-A", "SINGLE", "CEF  T-2026",
      "ERASMUS-JMO-2026-CHAIR", "ERASMUS-SPORT-2026-SNCESE", "ERASMUS-SPORT-2026-CB",
      "ERASMUS-SPORT-2026-SCP", "ERASMUS-YOUTH-2026-CB-01", "ERASMUS-YOUTH-2026-TOG",
      "ERASMUS-EDU-2026-POL-EXP-PI-01", "ERASMUS-EDU-2026-PI-ALL", "ERASMUS-EDU-2026-PCOOP-ENGO",
      "ERASMUS-EDU-2026-CBHE-01", "ERASMUS-EDU-2026-CB-VET-01", "ERASMUS-EDU-2026-VIRT-EXCH-01",
      "ERASMUS-EDU-2026-EMJM-MOB", "ERASMUS-EDU-2026-NET", "ERASMUS-2027-X", "erasmus-jmo-2026" }

\* title, callIdentifier and callTitle.
GTexts ==
    { <<"", "", "">>,
      <<"Sport Events 2026", "", "Call Title">>,
      <<"Youth Capacity Building", "CI-2026", "">>,
      <<"European Universities alliances", "CI-2026", "Call Title">> }

\* callccm2Id, url and language.
GDiscriminators ==
    { <<"", "", "">>, <<"77", "", "en">>, <<"", "https://ec.europa.eu/t/1", "">>,
      <<"77", "https://ec.europa.eu/t/1", "">>, <<"", "", "en">> }

\* "search": a Search API result, metadata values one-element lists;
\* "plain": metadata values plain strings with whitespace around them;
\* "topic": a fetched topic, identifier, url, language and title at the top
\* level and the rest under raw.metadata.
GShapes == {"search", "plain", "topic"}

GInputs ==
    { [shape |-> sh, typ |-> "1", ident |-> id, cc |-> d[1], url |-> d[2], lang |-> d[3],
       title |-> t[1], ci |-> t[2], ct |-> t[3]] :
      sh \in GShapes, id \in GIdents, d \in GDiscriminators, t \in GTexts }

\* The wrapper of an input.
GWrapper(in) ==
    IF in.shape = "search"
    THEN [EmptyWrapper EXCEPT
            !.type = AsStr(in.typ),
            !.metadata = [EmptyMeta EXCEPT
                !.identifier = AsList(in.ident), !.callccm2Id = AsList(in.cc),
                !.url = AsList(in.url), !.language = AsList(in.lang),
                !.title = AsList(in.title), !.callIdentifier = AsList(in.ci),
                !.callTitle = AsList(in.ct)]]
    ELSE IF in.shape = "plain"
    THEN [EmptyWrapper EXCEPT
            !.contentType = Padded(in.typ),
            !.metadata = [EmptyMeta EXCEPT
                !.identifier = Padded(in.ident), !.callccm2Id = Padded(in.cc),
                !.url = Padded(in.url), !.language = Padded(in.lang),
                !.title = Padded(in.title), !.callIdentifier = Padded(in.ci),
                !.callTitle = Padded(in.ct)]]
    ELSE [EmptyWrapper EXCEPT
            !.type = AsStr(in.typ), !.identifier = AsStr(in.ident), !.url = AsStr(in.url),
            !.language = AsStr(in.lang), !.title = AsStr(in.title),
            !.rawmeta = [EmptyMeta EXCEPT
                !.callccm2Id = AsList(in.cc), !.callIdentifier = AsList(in.ci),
                !.callTitle = AsList(in.ct)]]

\* A call of one strategy method on the record.
Call(op, out) ==
    /\ pc = "idle"
    /\ gres = NoCall
    /\ gres' = [op |-> op, out |-> out]
    /\ UNCHANGED <<cfg, pc, src, seen, grouped, singleton_keys, last, gin,
                 indexVars, budgetVars, orderVars, fetchVars>>

CallUniqueRecordKey == Call("unique_record_key", Ret(BaseUniqueRecordKey(GWrapper(gin))))

CallHorizonGroupValue == Call("horizon.group_value", HorizonGroupValue(GWrapper(gin)))

CallHorizonFallback ==
    Call("horizon.fallback_group_value", Ret(HorizonFallbackGroupValue(GWrapper(gin))))

CallDepGroupValue == Call("dep.group_value", Ret(DepGroupValue(GWrapper(gin))))

CallDepFallback == Call("dep.fallback_group_value", Ret(DepFallbackGroupValue(GWrapper(gin))))

CallErasmusGroupValue == Call("erasmus.group_value", Ret(ErasmusGroupValue(GWrapper(gin))))

CallErasmusFallback ==
    Call("erasmus.fallback_group_value", Ret(ErasmusFallbackGroupValue(GWrapper(gin))))

InitGroupers ==
    /\ cfg = Config("callTitle", "callTitle", FALSE, "_unknown_group", FALSE, "_other", 7, 25)
    /\ pc = "idle"
    /\ src = <<>>
    /\ seen = {}
    /\ grouped = <<>>
    /\ singleton_keys = <<>>
    /\ last = NoStep
    /\ gin \in GInputs
    /\ gres = NoCall
    /\ IndexIdle /\ BudgetIdle /\ OrderIdle /\ FetchIdle

NextGroupers ==
    \/ CallUniqueRecordKey
    \/ CallHorizonGroupValue
    \/ CallHorizonFallback
    \/ CallDepGroupValue
    \/ CallDepFallback
    \/ CallErasmusGroupValue
    \/ CallErasmusFallback

SpecGroupers == InitGroupers /\ [][NextGroupers]_vars

(***************************************************************************)
(* Part 5. Properties of the grouping pipeline (specification Spec).       *)
(***************************************************************************)

\* The logical identity of a wrapper: (type, identifier, callccm2Id,
\* language), each normalised as unique_record_key normalises it.
Identity(res) ==
    LET meta == res.metadata
        l    == Strip(safe_str(first(meta.language, res.language)))
    IN  <<Strip(safe_str(first(meta.type, res.type))),
          Strip(safe_str(first(meta.identifier, StrV("")))),
          Strip(safe_str(first(meta.callccm2Id, StrV("")))),
          IF l = "" THEN "und" ELSE l>>

\* The identity and the unique_record_key of every wrapper of the pool,
\* evaluated once.
PoolIdentity == [res \in Pool |-> Identity(res)]

PoolKey == [res \in Pool |-> unique_record_key(res)]

IdentityOf(res) == PoolIdentity[res]

KeyOf(res) == PoolKey[res]

\* The wrapper is a mapping with a non-blank identifier.
WellFormed(res) == res.isdict /\ IdentityOf(res)[2] # ""

\* No component of the identity contains the separator of the key.
PipeFree(res) == \A i \in 1..4 : ~Contains(IdentityOf(res)[i], "|")

\* Every (group, position) of the grouped mapping g.
Positions(g) == UNION {{<<i, j>> : j \in 1..Len(g[i].items)} : i \in 1..Len(g)}

\* The records of g whose unique_key is u, as (group, position) pairs.
Occurrences(g, u) == {p \in Positions(g) : g[p[1]].items[p[2]].unique_key = u}

\* The wrapper has a group value, or the unknown bucket takes it.
Groupable(res) ==
    \/ normalize_space(get_group_value(res, cfg.group_by)) # ""
    \/ normalize_space(get_group_value(res, cfg.fallback_group_by)) # ""
    \/ ~cfg.drop_unknown

\* The first well-formed wrapper read whose unique_key is u.
FirstWithKey(u) ==
    src[CHOOSE k \in 1..Len(src) :
            /\ WellFormed(src[k]) /\ KeyOf(src[k]) = u
            /\ \A m \in 1..(k - 1) : ~(WellFormed(src[m]) /\ KeyOf(src[m]) = u)]

\* How many records with key u the grouping loop leaves in grouped.
ExpectedCount(res) ==
    IF WellFormed(res) /\ Groupable(FirstWithKey(KeyOf(res))) THEN 1 ELSE 0

\* Pairs of wrappers read so far that are mappings with the same identity.
DuplicatePairs ==
    {<<i, j>> \in (1..Len(src)) \X (1..Len(src)) :
        i < j /\ src[i].isdict /\ src[j].isdict /\ IdentityOf(src[i]) = IdentityOf(src[j])}

\* C1 as stated: when wrappers of the input share (type, identifier,
\* callccm2Id, language), the mapping built by the grouping loop holds
\* exactly one record with that unique_key.
C1_ExactlyOnePerDuplicate ==
    pc = "loop" =>
        \A p \in DuplicatePairs :
            Cardinality(Occurrences(grouped, KeyOf(src[p[1]]))) = 1

\* C1 amended: when wrappers of the input share (type, identifier,
\* callccm2Id, language), the mapping built by the grouping loop holds
\* exactly one record with that unique_key if the identifier is non-blank
\* and the first wrapper with that key is not dropped by --drop-unknown, and
\* none otherwise; at no later point does it hold more than one.
C1_AtMostOnePerDuplicate ==
    \A p \in DuplicatePairs :
        LET n == Cardinality(Occurrences(grouped, KeyOf(src[p[1]])))
        IN  /\ n <= 1
            /\ pc = "loop" => n = ExpectedCount(src[p[1]])

\* A duplicate was read after its first occurrence was grouped, and was skipped.
C1_Witness ==
    /\ pc = "loop" /\ last.op = "skip_duplicate"
    /\ \E p \in DuplicatePairs :
           /\ p[2] = Len(src)
           /\ Cardinality(Occurrences(grouped, KeyOf(src[p[1]]))) = 1

\* Pairs of well-formed wrappers with one identifier and different identities.
SameIdentifierPairs ==
    {<<i, j>> \in (1..Len(src)) \X (1..Len(src)) :
        /\ i # j /\ WellFormed(src[i]) /\ WellFormed(src[j])
        /\ IdentityOf(src[i])[2] = IdentityOf(src[j])[2]
        /\ IdentityOf(src[i]) # IdentityOf(src[j])}

C3_NoRecordTwice ==
    \A p, q \in Positions(grouped) :
        p # q => grouped[p[1]].items[p[2]].unique_key # grouped[q[1]].items[q[2]].unique_key

\* The reconciliation has moved a singleton into a group with other records.
C3_Witness ==
    /\ last.op = "merge" /\ last.dest # last.key
    /\ Len(Items(grouped, last.dest)) >= 3
    /\ last.key \notin Keys(grouped)

\* The Jaccard score of the singleton tokens st against the group at i of
\* g: the fraction Inter/Union (0 when both sets are empty).
Inter(g, i, st) == Cardinality(st \cap RepresentativeTokens(g[i].items))

Union(g, i, st) == Cardinality(st \cup RepresentativeTokens(g[i].items))

\* The groups a singleton is compared with: those with at least 2 members.
Candidates(g) == {i \in 1..Len(g) : Len(g[i].items) >= 2}

\* Candidate i has the best score.
IsBest(g, i, st) ==
    \A j \in Candidates(g) : Inter(g, i, st) * Union(g, j, st) >= Inter(g, j, st) * Union(g, i, st)

\* The score of candidate i is at least the threshold.
AtLeastThreshold(g, i, st) == Inter(g, i, st) * cfg.thr_d >= cfg.thr_n * Union(g, i, st)

\* The step appended the singleton to the group dest (checked when the
\* group outlives the step: line 281 deletes the singleton's own key).
AppendedTo(dest, sk, item) ==
    /\ last'.op = "merge" /\ last'.item = item /\ last'.dest = dest
    /\ dest # sk => Items(grouped', dest) = Append(Items(grouped, dest), item)

\* C4 as stated: a singleton whose best score is at least the threshold is
\* appended to the best candidate group, and one whose best score is below
\* the threshold to the catch-all bucket.
C4_ThresholdRouting ==
    [][pc = "merge" =>
        LET sk   == Head(singleton_keys)
            item == Items(grouped, sk)[1]
            st   == ItemTokens(item)
            best == {i \in Candidates(grouped) : IsBest(grouped, i, st)}
        IN  best # {} =>
              IF \E i \in best : AtLeastThreshold(grouped, i, st)
              THEN \E i \in best : AppendedTo(grouped[i].k, sk, item)
              ELSE AppendedTo(cfg.singletons_key, sk, item)]_vars

\* C4 amended: a singleton whose best score against the groups with at
\* least 2 members is greater than 0 and at least the threshold (exactly
\* equal included) is appended to a group with that best score; every
\* other singleton (best score below the threshold, or 0, or no such
\* group) is appended to the catch-all bucket.
C4_PositiveThresholdRouting ==
    [][pc = "merge" =>
        LET sk   == Head(singleton_keys)
            item == Items(grouped, sk)[1]
            st   == ItemTokens(item)
            best == {i \in Candidates(grouped) : IsBest(grouped, i, st)}
        IN  IF \E i \in best : Inter(grouped, i, st) > 0 /\ AtLeastThreshold(grouped, i, st)
            THEN \E i \in best : AppendedTo(grouped[i].k, sk, item)
            ELSE AppendedTo(cfg.singletons_key, sk, item)]_vars

\* A singleton was merged into a group whose score was exactly the threshold.
C4_Witness ==
    /\ last.op = "merge" /\ last.target # "" /\ last.dest = last.target
    /\ last.dest # last.key /\ cfg.thr_n > 0
    /\ LET lst  == Items(grouped, last.dest)
           prev == SubSeq(lst, 1, Len(lst) - 1)
           st   == ItemTokens(last.item)
           ct   == RepresentativeTokens(prev)
       IN  /\ lst[Len(lst)] = last.item
           /\ Cardinality(st \cap ct) * cfg.thr_d = cfg.thr_n * Cardinality(st \cup ct)

\* The wrapper read last is well-formed and no earlier wrapper had its key.
LastIsFresh ==
    /\ src # <<>>
    /\ WellFormed(src[Len(src)])
    /\ \A k \in 1..(Len(src) - 1) :
           ~(WellFormed(src[k]) /\ KeyOf(src[k]) = KeyOf(src[Len(src)]))

\* The record with key u is in group k and nowhere else.
OnlyInGroup(u, k) ==
    /\ Cardinality(Occurrences(grouped, u)) = 1
    /\ \E j \in 1..Len(Items(grouped, k)) :
           Items(grouped, k)[j].unique_key = u /\ Items(grouped, k)[j].group_value = k

\* C5: a non-duplicate record with a non-blank identifier whose primary and
\* fallback group values are both empty after whitespace normalisation is
\* put under the unknown-bucket key when --drop-unknown is off and is in no
\* group when it is on; otherwise it is put under the primary value when
\* that is non-empty, else under the fallback value.
C5_UnknownBucketOrDrop ==
    pc = "loop" /\ LastIsFresh =>
        LET res      == src[Len(src)]
            u        == KeyOf(res)
            primary  == normalize_space(get_group_value(res, cfg.group_by))
            fallback == normalize_space(get_group_value(res, cfg.fallback_group_by))
        IN  IF primary = "" /\ fallback = ""
            THEN IF cfg.drop_unknown THEN Occurrences(grouped, u) = {}
                 ELSE OnlyInGroup(u, cfg.unknown_key)
            ELSE OnlyInGroup(u, IF primary # "" THEN primary ELSE fallback)

\* A record with no group value was put under the unknown-bucket key.
C5_Witness ==
    /\ pc = "loop" /\ LastIsFresh /\ ~cfg.drop_unknown
    /\ normalize_space(get_group_value(src[Len(src)], cfg.group_by)) = ""
    /\ normalize_space(get_group_value(src[Len(src)], cfg.fallback_group_by)) = ""
    /\ OnlyInGroup(KeyOf(src[Len(src)]), cfg.unknown_key)

\* C6: the grouping loop skips a wrapper that is not a mapping or whose
\* identifier is blank: seen and every group stay as they were, and the
\* loop goes on.
C6_MalformedSkipped ==
    [][pc = "loop" /\ src' # src /\ ~WellFormed(src'[Len(src')]) =>
        seen' = seen /\ grouped' = grouped /\ pc' = "loop"
        /\ last'.op \in {"skip_not_mapping", "skip_blank_identifier"}]_vars

\* A wrapper with a blank identifier was skipped after records were grouped.
C6_Witness ==
    /\ pc = "loop" /\ last.op = "skip_blank_identifier"
    /\ src[Len(src)].isdict /\ ~WellFormed(src[Len(src)])
    /\ grouped # <<>> /\ last.key \notin seen

(***************************************************************************)
(* Part 6. Properties of the strategies (specification SpecGroupers).      *)
(***************************************************************************)

\* The language of the key: the record's language, "und" when unknown.
KeyLanguage == IF gin.lang = "" THEN "und" ELSE gin.lang

\* C7: unique_record_key is type|identifier|callccm2Id|language when the
\* identifier and the callccm2Id are present; else, with an identifier,
\* type|identifier|url|language when there is a url and
\* type|identifier|language when there is none; else the sorted-key JSON
\* text of the wrapper; an unknown language is "und" in the first three.
C7_KeyPriorityOrder ==
    gres.op = "unique_record_key" =>
        /\ gres.out.raised = ""
        /\ gres.out.v =
             IF gin.ident # "" /\ gin.cc # ""
             THEN Join(<<gin.typ, gin.ident, gin.cc, KeyLanguage>>, "|")
             ELSE IF gin.ident # "" /\ gin.url # ""
             THEN Join(<<gin.typ, gin.ident, gin.url, KeyLanguage>>, "|")
             ELSE IF gin.ident # ""
             THEN Join(<<gin.typ, gin.ident, KeyLanguage>>, "|")
             ELSE JsonDumps(GWrapper(gin))

\* The key of a fetched topic with a url, no callccm2Id and no language.
C7_Witness ==
    /\ gres.op = "unique_record_key" /\ gin.shape = "topic"
    /\ gin.ident # "" /\ gin.cc = "" /\ gin.url # "" /\ gin.lang = ""
    /\ gres.out.v = Join(<<gin.typ, gin.ident, gin.url, "und">>, "|")

\* C8: HorizonProgrammeGrouper.group_value returns a string for every
\* identifier and raises nothing; it gives "DEMOCRACY" for
\* HORIZON-CL2-2026-01-DEMOCRACY-01, "MSCA" for HORIZON-MSCA-2026-DN-01 and
\* "EIC" for HORIZON-EIC-2026-PATHFINDER-01.
C8_HorizonGroupCodes ==
    gres.op = "horizon.group_value" =>
        /\ gres.out.raised = ""
        /\ gin.ident = "HORIZON-CL2-2026-01-DEMOCRACY-01" => gres.out.v = "DEMOCRACY"
        /\ gin.ident = "HORIZON-MSCA-2026-DN-01" => gres.out.v = "MSCA"
        /\ gin.ident = "HORIZON-EIC-2026-PATHFINDER-01" => gres.out.v = "EIC"

\* The identifier of the record, its whitespace normalised, and its
\* non-empty hyphen-delimited segments.
IdentNormalised == normalize_space(gin.ident)

IdentSegments == NonEmpty(SplitOn(IdentNormalised, "-"))

\* C9: DepProgrammeGrouper.group_value is the callIdentifier when there is
\* one; else, with an identifier, its first four non-empty
\* hyphen-delimited segments when it has at least four (whatever the first
\* segment) and the whole identifier when it has fewer; else the callTitle.
C9_DepCallFamily ==
    gres.op = "dep.group_value" =>
        /\ gres.out.raised = ""
        /\ gres.out.v =
             IF gin.ci # "" THEN gin.ci
             ELSE IF gin.ident = "" THEN gin.ct
             ELSE IF Len(IdentSegments) >= 4
             THEN IdentSegments[1] \o "-" \o IdentSegments[2] \o "-"
                  \o IdentSegments[3] \o "-" \o IdentSegments[4]
             ELSE IdentNormalised

\* The call family of an identifier that does not start with DIGITAL and
\* has empty segments.
C9_Witness ==
    /\ gres.op = "dep.group_value" /\ gin.ci = ""
    /\ Len(IdentSegments) > 4 /\ IdentSegments[1] # "DIGITAL"
    /\ Len(SplitOn(IdentNormalised, "-")) > Len(IdentSegments)
    /\ gres.out.v = "CEF-T-2026-MIX"

\* The labels of ErasmusEduProgrammeGrouper.group_value.
ErasmusLabels ==
    { "Jean Monnet Actions", "Sport Events", "Sport Capacity Building", "Sport Partnerships",
      "Youth Capacity Building", "Youth Actions", "Policy Experimentation",
      "Alliances & Policy Innovation", "Cooperation Partnerships",
      "Capacity Building in Higher Education", "Capacity Building in VET",
      "Virtual Exchanges", "Higher Education Excellence", "Education Other Actions",
      "Other ERASMUS Actions" }

\* C10: ErasmusEduProgrammeGrouper.group_value returns one of the fixed
\* labels for every record, never the empty string: the label family is
\* chosen by the identifier prefix, then by the first sub-rule that
\* matches (for SPORT: "Sport Events", then "Sport Capacity Building",
\* then "Sport Partnerships"); an identifier with none of the prefixes, a
\* blank one included, gives "Other ERASMUS Actions".
C10_ErasmusRuleTable ==
    gres.op = "erasmus.group_value" =>
        LET v     == gres.out.v
            title == Lower(gin.title)
        IN  /\ gres.out.raised = ""
            /\ v \in ErasmusLabels
            /\ StartsWith(gin.ident, "ERASMUS-JMO-") <=> v = "Jean Monnet Actions"
            /\ StartsWith(gin.ident, "ERASMUS-SPORT-") <=>
                   v \in {"Sport Events", "Sport Capacity Building", "Sport Partnerships"}
            /\ StartsWith(gin.ident, "ERASMUS-SPORT-") =>
                   /\ v = "Sport Events" <=>
                          (Contains(title, "sport events") \/ EndsWith(gin.ident, "-SNCESE"))
                   /\ v = "Sport Capacity Building" <=>
                          /\ ~(Contains(title, "sport events") \/ EndsWith(gin.ident, "-SNCESE"))
                          /\ EndsWith(gin.ident, "-CB")
            /\ StartsWith(gin.ident, "ERASMUS-YOUTH-") <=>
                   v \in {"Youth Capacity Building", "Youth Actions"}
            /\ StartsWith(gin.ident, "ERASMUS-EDU-") <=>
                   v \in {"Policy Experimentation", "Alliances & Policy Innovation",
                          "Cooperation Partnerships", "Capacity Building in Higher Education",
                          "Capacity Building in VET", "Virtual Exchanges",
                          "Higher Education Excellence", "Education Other Actions"}
            /\ StartsWith(gin.ident, "ERASMUS-EDU-") /\ Contains(gin.ident, "-POL-EXP-")
                   => v = "Policy Experimentation"
            /\ (\A pre \in {"ERASMUS-JMO-", "ERASMUS-SPORT-", "ERASMUS-YOUTH-", "ERASMUS-EDU-"} :
                    ~StartsWith(gin.ident, pre)) <=> v = "Other ERASMUS Actions"

\* A SPORT identifier ending in -CB whose title names sport events: the
\* first sub-rule wins.
C10_Witness ==
    /\ gres.op = "erasmus.group_value"
    /\ gin.ident = "ERASMUS-SPORT-2026-CB" /\ Contains(Lower(gin.title), "sport events")
    /\ gres.out.v = "Sport Events"


(***************************************************************************)
(* Part 7. split_calls_by_cluster.py: the destination index, the merge of  *)
(* alias groups, the retitling and the split into programmes.              *)
(*                                                                         *)
(* The three lookup tables are dicts whose order is never observed: they   *)
(* are functions.  The grouped mappings are written out in their key       *)
(* order: they are sequences of (key, list) entries, like grouped above.   *)
(***************************************************************************)

\* DestInfo (lines 43-47)
DestInfo(programme, canonical_code, title) ==
    [programme |-> programme, canonical_code |-> canonical_code, title |-> title]

\* d[k] = v for a dict that is a function.
Put(f, k, v) == [x \in DOMAIN f \cup {k} |-> IF x = k THEN v ELSE f[x]]

\* str(v or "").strip()
StrOrEmpty(v) == Strip(safe_str(OrV(v, StrV(""))))

\* A variant of the alias loop in which the first entry listing an alias keeps it.
RECURSIVE AddAltCodesFirstWins(_, _, _)
AddAltCodesFirstWins(a2c, xs, code) ==
    IF xs = <<>> THEN a2c
    ELSE LET a2 == Strip(Head(xs))
         IN  AddAltCodesFirstWins(IF a2 # "" /\ a2 \notin DOMAIN a2c THEN Put(a2c, a2, code) ELSE a2c,
                                  Tail(xs), code)

\* Lines 94-97: every non-blank alias, stripped, is assigned the code.
RECURSIVE AddAltCodes(_, _, _)
AddAltCodes(a2c, xs, code) ==
    IF xs = <<>> THEN a2c
    ELSE LET a2 == Strip(Head(xs))
         IN  AddAltCodes(IF a2 # "" THEN Put(a2c, a2, code) ELSE a2c, Tail(xs), code)

\* Lines 82-97: the loop over one programme's dest_list; t holds
\* code_to_info and alt_to_canonical.
RECURSIVE IndexDestList(_, _, _)
IndexDestList(t, programme, ds) ==
    IF ds = <<>> THEN t
    ELSE LET d     == Head(ds)
             code  == StrOrEmpty(d.destination_code)
             title == StrOrEmpty(d.destination_title)
             alt_codes == OrV(d.alt_codes, ListV(<<>>))
         IN  IF ~d.isdict \/ code = "" \/ title = ""
             THEN IndexDestList(t, programme, Tail(ds))
             ELSE IndexDestList(
                    [code_to_info |-> Put(t.code_to_info, code, DestInfo(programme, code, title)),
                     alt_to_canonical |->
                        IF alt_codes.t = "list"
                        THEN AddAltCodes(t.alt_to_canonical, alt_codes.l, code)
                        ELSE t.alt_to_canonical],
                    programme, Tail(ds))

\* Lines 79-81: the loop over index_obj.items().
RECURSIVE IndexProgrammes(_, _)
IndexProgrammes(t, ps) ==
    IF ps = <<>> THEN t
    ELSE IndexProgrammes(IF Head(ps).islist THEN IndexDestList(t, Head(ps).k, Head(ps).l) ELSE t,
                         Tail(ps))

\* A variant of build_destination_index that reads a document that is not
\* a mapping as an empty index.
build_destination_index_lenient(obj) ==
    LET t   == IF obj.isdict
               THEN IndexProgrammes([code_to_info |-> <<>>, alt_to_canonical |-> <<>>], obj.items)
               ELSE [code_to_info |-> <<>>, alt_to_canonical |-> <<>>]
        c2i == t.code_to_info
        a2c == t.alt_to_canonical
    IN  Ret([code_to_info |-> c2i, alt_to_canonical |-> a2c,
             anycode_to_info |->
                [k \in DOMAIN c2i \cup DOMAIN a2c |-> IF k \in DOMAIN a2c THEN c2i[a2c[k]] ELSE c2i[k]]])

\* build_destination_index: SystemExit, or the three tables.
build_destination_index(obj) ==
    IF ~obj.isdict THEN Raised("SystemExit")
    ELSE LET t   == IndexProgrammes([code_to_info |-> <<>>, alt_to_canonical |-> <<>>], obj.items)
             c2i == t.code_to_info
             a2c == t.alt_to_canonical
             alts == {alt \in DOMAIN a2c : a2c[alt] \in DOMAIN c2i}
         IN  Ret([code_to_info |-> c2i, alt_to_canonical |-> a2c,
                  anycode_to_info |->
                      [k \in DOMAIN c2i \cup alts |-> IF k \in alts THEN c2i[a2c[k]] ELSE c2i[k]]])

\* [x for x in v if isinstance(x, dict)]
RECURSIVE OnlyDicts(_)
OnlyDicts(v) ==
    IF v = <<>> THEN <<>>
    ELSE (IF Head(v).isdict THEN <<Head(v)>> ELSE <<>>) \o OnlyDicts(Tail(v))

\* normalize_grouped_calls: SystemExit, or the mapping with lists of dicts.
normalize_grouped_calls(obj) ==
    IF ~obj.isdict THEN Raised("SystemExit")
    ELSE IF obj.items = <<>> THEN Ret(<<>>)
    ELSE Ret([i \in 1..Len(obj.items) |->
                [k |-> obj.items[i].k,
                 items |-> IF obj.items[i].islist THEN OnlyDicts(obj.items[i].l) ELSE <<>>]])

\* A variant of DictExtend that assigns: mapping[k] = records.
DictExtendReplacing(g, k, records) ==
    IF k \in Keys(g)
    THEN [g EXCEPT ![KeyPos(g, k)].items = records]
    ELSE Append(g, [k |-> k, items |-> records])

\* mapping.setdefault(k, []).extend(records)
DictExtend(g, k, records) ==
    IF k \in Keys(g)
    THEN [g EXCEPT ![KeyPos(g, k)].items = @ \o records]
    ELSE Append(g, [k |-> k, items |-> records])

\* The sort key of line 150: (str(identifier or ""), str(unique_key or "")).
RecordKeyLess(a, b) ==
    LET ia == safe_str(OrV(a.identifier, StrV("")))
        ib == safe_str(OrV(b.identifier, StrV("")))
        ua == safe_str(OrV(a.unique_key, StrV("")))
        ub == safe_str(OrV(b.unique_key, StrV("")))
    IN  StrLess(ia, ib) \/ (ia = ib /\ StrLess(ua, ub))

\* list.sort(key=...) of line 150: a stable sort.
SortRecords(xs) ==
    IF xs = <<>> THEN <<>>
    ELSE LET pos(i) == 1 + Cardinality({j \in 1..Len(xs) :
                            \/ RecordKeyLess(xs[j], xs[i])
                            \/ (~RecordKeyLess(xs[i], xs[j]) /\ j < i)})
         IN  [n \in 1..Len(xs) |-> xs[CHOOSE i \in 1..Len(xs) : pos(i) = n]]

\* effective of lines 139-143.
EffectiveKey(key, any) == IF key \in DOMAIN any THEN any[key].canonical_code ELSE key

\* Lines 138-146: the loop over grouped.items().
RECURSIVE MergeLoop(_, _, _)
MergeLoop(merged, g, any) ==
    IF g = <<>> THEN merged
    ELSE MergeLoop(DictExtend(merged, EffectiveKey(Head(g).k, any), Head(g).items), Tail(g), any)

\* A variant of merge_alt_groups that leaves every key as it is.
merge_alt_groups_no_resolution(g, any) ==
    [merged |-> IF g = <<>> THEN <<>>
                ELSE [i \in 1..Len(g) |-> [k |-> g[i].k, items |-> SortRecords(g[i].items)]],
     key_resolution |-> [key \in Keys(g) |-> key]]

\* merge_alt_groups: the merged mapping and key_resolution.
merge_alt_groups(g, any) ==
    LET merged == MergeLoop(<<>>, g, any)
    IN  [merged |-> IF merged = <<>> THEN <<>>
                    ELSE [i \in 1..Len(merged) |->
                            [k |-> merged[i].k, items |-> SortRecords(merged[i].items)]],
         key_resolution |-> [key \in Keys(g) |-> EffectiveKey(key, any)]]

\* key=lambda s: s.lower() of lines 188 and 221, applied to each key of g.
RECURSIVE LowerKeys(_)
LowerKeys(g) == IF g = <<>> THEN <<>> ELSE <<Lower(Head(g).k)>> \o LowerKeys(Tail(g))

\* The place of each of the sort keys ks, from position i on, in their
\* ascending order; equal keys keep their order (sorted is stable).
RECURSIVE Places(_, _)
Places(ks, i) ==
    IF i > Len(ks) THEN <<>>
    ELSE <<1 + Cardinality({j \in 1..Len(ks) :
                StrLess(ks[j], ks[i]) \/ (ks[j] = ks[i] /\ j < i)})>> \o Places(ks, i + 1)

\* sorted(...) with the sort keys ks0: the entries of g in ascending order
\* of their sort key.
SortedBy(g0, ks0) ==
    CHOOSE r \in {[n \in 1..Len(g) |-> g[CHOOSE i \in 1..Len(g) : place[i] = n]] :
                  g \in {g0}, place \in {Places(ks, 1) : ks \in {ks0}}} : TRUE

\* sorted(keys, key=lambda s: s.lower()) applied to a mapping: its entries
\* in that order.
SortByLowerKey(g) == IF g = <<>> THEN <<>> ELSE SortedBy(g, LowerKeys(g))

\* Lines 180-183: the records of one group after the loop body; they are
\* the same objects in merged_by_code and in titled.
RetitledRecords(code, records, c2i, keep) ==
    IF code \in DOMAIN c2i /\ ~keep /\ records # <<>>
    THEN [i \in 1..Len(records) |-> [records[i] EXCEPT !.group_value = StrV(c2i[code].title)]]
    ELSE records

\* Lines 170-185: the loop over merged_by_code.items().
RECURSIVE RetitleLoop(_, _, _, _)
RetitleLoop(titled, m, c2i, keep) ==
    IF m = <<>> THEN titled
    ELSE LET code == Head(m).k
             out_key == IF code \in DOMAIN c2i THEN c2i[code].title ELSE code
         IN  RetitleLoop(DictExtend(titled, out_key, RetitledRecords(code, Head(m).items, c2i, keep)),
                         Tail(m), c2i, keep)

\* A variant of retitle_groups that always overwrites group_value and
\* orders the keys as they are.
retitle_groups_overwriting(m, c2i, keep) ==
    LET t == RetitleLoop(<<>>, m, c2i, FALSE)
    IN  [titled |-> IF t = <<>> THEN <<>>
                    ELSE LET pos(i) == 1 + Cardinality({j \in 1..Len(t) : StrLess(t[j].k, t[i].k)})
                         IN  [n \in 1..Len(t) |-> t[CHOOSE i \in 1..Len(t) : pos(i) = n]],
         code_to_title_used |-> [code \in Keys(m) \cap DOMAIN c2i |-> c2i[code].title],
         merged_by_code |->
            IF m = <<>> THEN <<>>
            ELSE [i \in 1..Len(m) |->
                    [k |-> m[i].k, items |-> RetitledRecords(m[i].k, m[i].items, c2i, FALSE)]]]

\* retitle_groups: titled_sorted and code_to_title_used, and the argument
\* merged_by_code as the function leaves it.
retitle_groups(m, c2i, keep) ==
    [titled |-> SortByLowerKey(RetitleLoop(<<>>, m, c2i, keep)),
     code_to_title_used |-> [code \in Keys(m) \cap DOMAIN c2i |-> c2i[code].title],
     merged_by_code |->
        IF m = <<>> THEN <<>>
        ELSE [i \in 1..Len(m) |->
                [k |-> m[i].k, items |-> RetitledRecords(m[i].k, m[i].items, c2i, keep)]]]

\* out[programme].setdefault(dest_key, []).extend(records), after
\* out.setdefault(programme, {}) (lines 216-217).
SplitExtend(out, programme, dest_key, records) ==
    IF programme \in Keys(out)
    THEN [out EXCEPT ![KeyPos(out, programme)].items = DictExtend(@, dest_key, records)]
    ELSE Append(out, [k |-> programme, items |-> <<[k |-> dest_key, items |-> records]>>])

\* Lines 207-217: the loop over merged_by_code.items().
RECURSIVE SplitLoop(_, _, _, _)
SplitLoop(out, m, c2i, unmapped_programme) ==
    IF m = <<>> THEN out
    ELSE LET code == Head(m).k
             mapped == code \in DOMAIN c2i
         IN  SplitLoop(SplitExtend(out,
                                   IF mapped THEN c2i[code].programme ELSE unmapped_programme,
                                   IF mapped THEN c2i[code].title ELSE code,
                                   Head(m).items),
                       Tail(m), c2i, unmapped_programme)

\* A variant of split_into_programmes that files unmapped codes under the
\* empty programme name.
split_into_programmes_unnamed(m, c2i, unmapped_programme) ==
    LET out == SplitLoop(<<>>, m, c2i, "")
    IN  IF out = <<>> THEN <<>>
        ELSE [i \in 1..Len(out) |-> [k |-> out[i].k, items |-> SortByLowerKey(out[i].items)]]

\* split_into_programmes
split_into_programmes(m, c2i, unmapped_programme) ==
    LET out == SplitLoop(<<>>, m, c2i, unmapped_programme)
    IN  IF out = <<>> THEN <<>>
        ELSE [i \in 1..Len(out) |-> [k |-> out[i].k, items |-> SortByLowerKey(out[i].items)]]


(***************************************************************************)
(* The inputs of split_calls_by_cluster.py.                                *)
(***************************************************************************)

MaxEntries == 2

MaxGroups == 2

\* The sequences over S of length at most n.
SeqsUpTo(S, n) == UNION {[1..m -> S] : m \in 0..n}

\* One element of a programme's destination list.
Dest(code, title, alt_codes) ==
    [isdict |-> TRUE, destination_code |-> code, destination_title |-> title,
     alt_codes |-> alt_codes]

\* An element of a destination list that is not a mapping.
NotADest == [Dest(NoneV, NoneV, NoneV) EXCEPT !.isdict = FALSE]

\* What an index document is made of: a destination under a programme, or
\* a programme whose value is not a list.
IndexItem(programme, islist, d) == [programme |-> programme, islist |-> islist, d |-> d]

IndexItems ==
    { IndexItem("P1", TRUE, Dest(StrV("A"), StrV("Alpha"), ListV(<<"a1", " ">>))),
      IndexItem("P1", TRUE, Dest(StrV(" B "), StrV("Beta"), ListV(<<"A">>))),
      IndexItem("P1", TRUE, Dest(StrV("C"), StrV("Alpha "), ListV(<<"B", " a1">>))),
      IndexItem("P2", TRUE, Dest(StrV("A"), StrV("Other"), NoneV)),
      IndexItem("P2", TRUE, Dest(StrV("D"), StrV("A"), StrV("a1"))) }

\* What every index document starts with, and the code skips: a programme
\* whose value is not a list (line 80), and under another programme an
\* element that is not a mapping (line 83), a destination with a blank code
\* and one without a title (line 87).
SkippedProgrammes ==
    << [k |-> "P0", islist |-> FALSE, l |-> <<>>],
       [k |-> "P9", islist |-> TRUE,
        l |-> <<NotADest, Dest(StrV(" "), StrV("Gamma"), ListV(<<"b">>)),
                Dest(StrV("E"), NoneV, ListV(<<"a1">>))>>] >>

\* The index document holding the items its: a mapping from each programme
\* to its list (lines 12-15), in the order the programmes first occur.
RECURSIVE IndexDoc(_)
IndexDoc(its) ==
    IF its = <<>> THEN SkippedProgrammes
    ELSE LET rest == IndexDoc(SubSeq(its, 1, Len(its) - 1))
             it   == its[Len(its)]
         IN  IF it.programme \in Keys(rest)
             THEN (IF it.islist THEN [rest EXCEPT ![KeyPos(rest, it.programme)].l = Append(@, it.d)]
                   ELSE rest)
             ELSE Append(rest, [k |-> it.programme, islist |-> it.islist,
                                l |-> IF it.islist THEN <<it.d>> ELSE <<>>])

\* A JSON document that is not a mapping (a list, a string).
NotAMapping == [isdict |-> FALSE, items |-> <<>>]

IndexDocs ==
    {NotAMapping} \cup
    {[isdict |-> TRUE, items |-> IndexDoc(its)] : its \in SeqsUpTo(IndexItems, MaxEntries)}

\* A record of the grouped calls file: the fields the script reads or writes.
Rec(identifier, unique_key, group_value) ==
    [isdict |-> TRUE, identifier |-> identifier, unique_key |-> StrV(unique_key),
     group_value |-> StrV(group_value)]

\* A list element that is not a mapping.
NotARecord == [Rec(NoneV, "", "") EXCEPT !.isdict = FALSE]

\* The groups a grouped calls file is made of.
InputGroups ==
    { [k |-> "A",  islist |-> TRUE, l |-> <<Rec(StrV("T-2"), "u2", "A"), Rec(StrV("T-1"), "u1", "A")>>],
      [k |-> "a1", islist |-> TRUE, l |-> <<Rec(StrV("T-3"), "u3", "a1")>>],
      [k |-> "B",  islist |-> TRUE, l |-> <<Rec(StrV("T-0"), "u0", "B"), NotARecord>>],
      [k |-> "C",  islist |-> TRUE, l |-> <<Rec(StrV("T-1"), "u0", "C")>>],
      [k |-> "D",  islist |-> TRUE, l |-> <<Rec(NoneV, "u4", "D")>>] }

\* A key of every grouped calls document whose value is not a list.
NotAGroup == [k |-> "e", islist |-> FALSE, l |-> <<>>]

\* The grouped calls documents: mappings with distinct keys.
GroupedDocs ==
    {NotAMapping} \cup
    {[isdict |-> TRUE, items |-> <<NotAGroup>> \o g] :
        g \in {x \in SeqsUpTo(InputGroups, MaxGroups) :
                \A i, j \in 1..Len(x) : i # j => x[i].k # x[j].k}}

\* args: --keep-original-group-value and --unmapped-programme (lines 244-253).
IndexArgs ==
    {[keep_original_group_value |-> b, unmapped_programme |-> "_UNMAPPED"] : b \in BOOLEAN}

(***************************************************************************)
(* main() of split_calls_by_cluster.py as a state machine.                 *)
(***************************************************************************)

\* Line 270.  SystemExit ends the program.
NormalizeGrouped ==
    /\ pc = "normalize"
    /\ LET r == normalize_grouped_calls(grouped_obj)
       IN  IF r.raised # "" THEN pc' = "exit" /\ UNCHANGED igrouped
           ELSE pc' = "build_index" /\ igrouped' = r.v
    /\ UNCHANGED <<pipeVars, grouperVars, budgetVars, orderVars, fetchVars, iargs, index_obj, grouped_obj,
                   code_to_info, alt_to_canonical, anycode_to_info, merged_by_code,
                   key_resolution, titled_grouped, code_to_title_used, split>>

\* Line 271.
BuildIndex ==
    /\ pc = "build_index"
    /\ LET r == build_destination_index(index_obj)
       IN  IF r.raised # ""
           THEN pc' = "exit" /\ UNCHANGED <<code_to_info, alt_to_canonical, anycode_to_info>>
           ELSE /\ pc' = "merge_alt"
                /\ code_to_info' = r.v.code_to_info
                /\ alt_to_canonical' = r.v.alt_to_canonical
                /\ anycode_to_info' = r.v.anycode_to_info
    /\ UNCHANGED <<pipeVars, grouperVars, budgetVars, orderVars, fetchVars, iargs, index_obj, grouped_obj,
                   igrouped, merged_by_code, key_resolution, titled_grouped,
                   code_to_title_used, split>>

\* Line 274.
MergeAlt ==
    /\ pc = "merge_alt"
    /\ LET r == merge_alt_groups(igrouped, anycode_to_info)
       IN  merged_by_code' = r.merged /\ key_resolution' = r.key_resolution
    /\ pc' = "retitle"
    /\ UNCHANGED <<pipeVars, grouperVars, budgetVars, orderVars, fetchVars, iargs, index_obj, grouped_obj,
                   igrouped, code_to_info, alt_to_canonical, anycode_to_info, titled_grouped,
                   code_to_title_used, split>>

\* Lines 277-281.  The records of merged_by_code are the records the
\* function writes to.
Retitle ==
    /\ pc = "retitle"
    /\ LET r == retitle_groups(merged_by_code, code_to_info, iargs.keep_original_group_value)
       IN  /\ titled_grouped' = r.titled
           /\ code_to_title_used' = r.code_to_title_used
           /\ merged_by_code' = r.merged_by_code
    /\ pc' = "split"
    /\ UNCHANGED <<pipeVars, grouperVars, budgetVars, orderVars, fetchVars, iargs, index_obj, grouped_obj,
                   igrouped, code_to_info, alt_to_canonical, anycode_to_info, key_resolution,
                   split>>

\* Lines 284-288; the report and the files written (lines 290-336) are the
\* values computed so far.
SplitProgrammes ==
    /\ pc = "split"
    /\ split' = split_into_programmes(merged_by_code, code_to_info, iargs.unmapped_programme)
    /\ pc' = "written"
    /\ UNCHANGED <<pipeVars, grouperVars, budgetVars, orderVars, fetchVars, iargs, index_obj, grouped_obj,
                   igrouped, code_to_info, alt_to_canonical, anycode_to_info, merged_by_code,
                   key_resolution, titled_grouped, code_to_title_used>>

\* The other programs are not running.
PipelineIdle ==
    /\ cfg = Config("callTitle", "callTitle", FALSE, "_unknown_group", FALSE, "_other", 7, 25)
    /\ src = <<>> /\ seen = {} /\ grouped = <<>> /\ singleton_keys = <<>> /\ last = NoStep

GroupersIdle == gin = NoInput /\ gres = NoCall

InitIndex ==
    /\ pc = "normalize"
    /\ iargs \in IndexArgs
    /\ index_obj \in IndexDocs
    /\ grouped_obj \in GroupedDocs
    /\ igrouped = <<>>
    /\ code_to_info = <<>> /\ alt_to_canonical = <<>> /\ anycode_to_info = <<>>
    /\ merged_by_code = <<>> /\ key_resolution = <<>> /\ titled_grouped = <<>>
    /\ code_to_title_used = <<>> /\ split = <<>>
    /\ PipelineIdle /\ GroupersIdle /\ BudgetIdle /\ OrderIdle /\ FetchIdle

NextIndex ==
    \/ NormalizeGrouped
    \/ BuildIndex
    \/ MergeAlt
    \/ Retitle
    \/ SplitProgrammes

SpecIndex == InitIndex /\ [][NextIndex]_vars


(***************************************************************************)
(* Part 8. Properties of the destination index resolver (specification     *)
(* SpecIndex).                                                             *)
(***************************************************************************)

\* The entries of an index document in document order, each with the
\* programme it stands under.
RECURSIVE FlatEntries(_)
FlatEntries(ps) ==
    IF ps = <<>> THEN <<>>
    ELSE (IF Head(ps).islist /\ Head(ps).l # <<>>
          THEN [i \in 1..Len(Head(ps).l) |-> [programme |-> Head(ps).k, d |-> Head(ps).l[i]]]
          ELSE <<>>) \o FlatEntries(Tail(ps))

\* The valid entries of the index document read: mappings with a non-blank
\* code and a non-blank title, as (programme, code, title, alias codes).
ValidEntries ==
    LET all == FlatEntries(index_obj.items)
        ok(e) == /\ e.d.isdict
                 /\ StrOrEmpty(e.d.destination_code) # ""
                 /\ StrOrEmpty(e.d.destination_title) # ""
        entry(e) == [programme |-> e.programme,
                     code |-> StrOrEmpty(e.d.destination_code),
                     title |-> StrOrEmpty(e.d.destination_title),
                     aliases |-> IF e.d.alt_codes.t = "list"
                                 THEN {Strip(a) : a \in Range(e.d.alt_codes.l)} \ {""}
                                 ELSE {}]
    IN  [i \in {j \in 1..Len(all) : ok(all[j])} |-> entry(all[i])]

\* The index has been built.
IndexBuilt == pc \in {"merge_alt", "retitle", "split", "written"}

\* C11 as stated: every alias code of a valid entry resolves in
\* anycode_to_info to the full info (programme, canonical code, title) of
\* the entry that lists it.
C11_AliasResolvesToListingEntry ==
    IndexBuilt =>
        \A i \in DOMAIN ValidEntries : \A a \in ValidEntries[i].aliases :
            /\ a \in DOMAIN anycode_to_info
            /\ anycode_to_info[a] = DestInfo(ValidEntries[i].programme, ValidEntries[i].code,
                                             ValidEntries[i].title)

\* Among the valid entries ve, the last one that lists alias a, and the last
\* one whose canonical code is c.
LastListing(ve, a) ==
    CHOOSE i \in DOMAIN ve :
        /\ a \in ve[i].aliases
        /\ \A j \in DOMAIN ve : a \in ve[j].aliases => j <= i

LastWithCode(ve, c) ==
    CHOOSE i \in DOMAIN ve :
        /\ ve[i].code = c
        /\ \A j \in DOMAIN ve : ve[j].code = c => j <= i

\* C11: every alias code of a valid entry resolves in anycode_to_info to
\* exactly one entry, the full info (programme, canonical code, title) of
\* the last valid entry that carries the canonical code of the last valid
\* entry listing the alias.
C11_AliasResolvesToLastListing ==
    IndexBuilt =>
        \A ve \in {ValidEntries} : \A i \in DOMAIN ve : \A a \in ve[i].aliases :
            LET e == ve[LastWithCode(ve, ve[LastListing(ve, a)].code)]
            IN  /\ a \in DOMAIN anycode_to_info
                /\ anycode_to_info[a] = DestInfo(e.programme, e.code, e.title)

\* An index in which two valid entries with different codes list the same
\* alias has been built.
C11_Witness ==
    /\ pc = "merge_alt"
    /\ \E i, j \in DOMAIN ValidEntries :
        /\ i < j
        /\ ValidEntries[i].code # ValidEntries[j].code
        /\ ValidEntries[i].aliases \cap ValidEntries[j].aliases # {}


\* How often record r occurs in the list xs.
Count(r, xs) == Cardinality({i \in 1..Len(xs) : xs[i] = r})

\* The records of the mapping g.
RecordsOf(g) == UNION {Range(Items(g, k)) : k \in Keys(g)}

\* C12: merge_alt_groups resolves every input key to the canonical code of
\* its entry in anycode_to_info (canonical and alias codes) and to itself
\* when it has none; the merged group of an effective key holds exactly the
\* records of the input groups resolving to it, each as often as they hold
\* it; key_resolution has one entry per input key.
C12_MergeResolvesAndCollects ==
    pc = "retitle" =>
        /\ DOMAIN key_resolution = Keys(igrouped)
        /\ \A k \in Keys(igrouped) :
            key_resolution[k] = IF k \in DOMAIN code_to_info \cup DOMAIN alt_to_canonical
                                THEN anycode_to_info[k].canonical_code
                                ELSE k
        /\ Keys(merged_by_code) = {key_resolution[k] : k \in Keys(igrouped)}
        /\ \A e \in Keys(merged_by_code) : \A r \in RecordsOf(igrouped) \cup RecordsOf(merged_by_code) :
            Count(r, Items(merged_by_code, e)) =
                Cardinality(UNION {
                    {<<k, i>> : i \in {j \in 1..Len(Items(igrouped, k)) : Items(igrouped, k)[j] = r}} :
                    k \in {x \in Keys(igrouped) : key_resolution[x] = e}})

\* A group keyed by an alias code has been merged with the group of
\* another key.
C12_Witness ==
    /\ pc = "retitle"
    /\ \E k1, k2 \in Keys(igrouped) :
        /\ k1 # k2
        /\ k1 \in DOMAIN alt_to_canonical
        /\ key_resolution[k1] = key_resolution[k2]
        /\ Items(igrouped, k1) # <<>> /\ Items(igrouped, k2) # <<>>


\* The key retitling gives to code: the title of its entry in code_to_info,
\* the code itself when it has none.
TitleOrCode(code) == IF code \in DOMAIN code_to_info THEN code_to_info[code].title ELSE code

\* The records retitling is to leave for the group of code: group_value set
\* to the title in a mapped group unless the original value is kept.
RecordsAfterRetitle(m, code) ==
    IF code \in DOMAIN code_to_info /\ ~iargs.keep_original_group_value /\ Items(m, code) # <<>>
    THEN [i \in 1..Len(Items(m, code)) |->
            [Items(m, code)[i] EXCEPT !.group_value = StrV(code_to_info[code].title)]]
    ELSE Items(m, code)

\* C13: retitle_groups replaces every key that has an entry in code_to_info
\* by the title and keeps every other key; the output keys are in
\* case-insensitive order; each output group holds the records of the
\* groups that got its key, with group_value set to the title in mapped
\* groups when keep_original_group_value is false, and otherwise unmodified.
C13_RetitleKeysAndRecords ==
    [][pc = "retitle" =>
        LET m == merged_by_code
            t == titled_grouped'
        IN  /\ Keys(t) = {TitleOrCode(code) : code \in Keys(m)}
            /\ \A i, j \in 1..Len(t) :
                i < j => t[i].k # t[j].k /\ ~StrLess(Lower(t[j].k), Lower(t[i].k))
            /\ \A code \in Keys(m) : \A r \in Range(RecordsAfterRetitle(m, code)) :
                Count(r, Items(t, TitleOrCode(code))) =
                    Cardinality(UNION {
                        {<<c, i>> : i \in {j \in 1..Len(Items(m, c)) : RecordsAfterRetitle(m, c)[j] = r}} :
                        c \in {x \in Keys(m) : TitleOrCode(x) = TitleOrCode(code)}})
            /\ \A i \in 1..Len(t) :
                Len(t[i].items) =
                    Cardinality(UNION {{<<c, j>> : j \in 1..Len(Items(m, c))} :
                                       c \in {x \in Keys(m) : TitleOrCode(x) = t[i].k}})
    ]_vars

\* Retitling has renamed a group to its title, overwritten the group_value
\* of its records, and kept an unmapped group next to it.
C13_Witness ==
    /\ pc = "split"
    /\ ~iargs.keep_original_group_value
    /\ \E i, j \in 1..Len(titled_grouped) :
        /\ titled_grouped[i].k \notin Keys(igrouped)
        /\ titled_grouped[i].items # <<>>
        /\ \A n \in 1..Len(titled_grouped[i].items) :
            titled_grouped[i].items[n].group_value = StrV(titled_grouped[i].k)
        /\ titled_grouped[j].k \notin DOMAIN anycode_to_info
        /\ titled_grouped[j].items # <<>>
        /\ StrLess(titled_grouped[j].k, titled_grouped[i].k) # StrLess(Lower(titled_grouped[j].k), Lower(titled_grouped[i].k))


\* The input keys that are neither a canonical code nor an alias code of
\* the index.
UnmappedKeys == Keys(igrouped) \ (DOMAIN code_to_info \cup DOMAIN alt_to_canonical)

\* Every record of the input group k is in the list xs, as often as in the group.
HoldsGroup(xs, k) ==
    \A r \in Range(Items(igrouped, k)) : Count(r, xs) >= Count(r, Items(igrouped, k))

\* C14: when the program has written its output, every input key that is
\* neither a canonical nor an alias code is a key of the merged and of the
\* retitled mapping and a destination of the unmapped programme bucket, and
\* each of the three groups holds all its records, unmodified.
C14_UnmappedKeyPreserved ==
    pc = "written" =>
        \A k \in UnmappedKeys :
            /\ k \in Keys(merged_by_code) /\ HoldsGroup(Items(merged_by_code, k), k)
            /\ k \in Keys(titled_grouped) /\ HoldsGroup(Items(titled_grouped, k), k)
            /\ iargs.unmapped_programme \in Keys(split)
            /\ k \in Keys(Items(split, iargs.unmapped_programme))
            /\ HoldsGroup(Items(Items(split, iargs.unmapped_programme), k), k)

\* The program has written its output for a grouped file with a key
\* unknown to the index and a key the index maps.
C14_Witness ==
    /\ pc = "written"
    /\ \E k \in UnmappedKeys : Items(igrouped, k) # <<>>
    /\ \E k \in Keys(igrouped) : k \in DOMAIN anycode_to_info /\ Items(igrouped, k) # <<>>


\* C15: alias merging is idempotent: merge_alt_groups applied to the merged
\* mapping of the first pass, with the same index, returns that mapping
\* again and resolves every key to itself.
C15_MergeIdempotent ==
    pc = "retitle" =>
        LET again == merge_alt_groups(merged_by_code, anycode_to_info)
        IN  /\ again.merged = merged_by_code
            /\ \A k \in Keys(merged_by_code) : again.key_resolution[k] = k

\* C16: retitling is idempotent: retitle_groups applied to the retitled
\* mapping of the first pass, with the same index, returns the same keys in
\* the same order with the same record lists.
C16_RetitleIdempotent ==
    pc = "split" =>
        retitle_groups(titled_grouped, code_to_info, iargs.keep_original_group_value).titled
            = titled_grouped

\* Nothing has been computed from the index: no lookup table and no output.
NoIndexOutput ==
    /\ code_to_info = <<>> /\ alt_to_canonical = <<>> /\ anycode_to_info = <<>>
    /\ merged_by_code = <<>> /\ key_resolution = <<>> /\ titled_grouped = <<>>
    /\ code_to_title_used = <<>> /\ split = <<>>

\* C18: a grouped document or an index document that is not a mapping ends
\* the program with SystemExit before any lookup table or output exists;
\* with two mappings neither function raises and the program never ends
\* with SystemExit, the malformed items being skipped: the
\* tables hold the valid entries only, a group whose value is not a list is
\* empty and no group holds a record that is not a mapping.
C18_FailFastOnShapeOnly ==
    /\ ~grouped_obj.isdict => pc \in {"normalize", "exit"} /\ igrouped = <<>> /\ NoIndexOutput
    /\ ~index_obj.isdict => pc \in {"normalize", "build_index", "exit"} /\ NoIndexOutput
    /\ (grouped_obj.isdict /\ index_obj.isdict) =>
        /\ pc # "exit"
        /\ normalize_grouped_calls(grouped_obj).raised = ""
        /\ build_destination_index(index_obj).raised = ""
        /\ IndexBuilt =>
            /\ DOMAIN code_to_info = {ValidEntries[i].code : i \in DOMAIN ValidEntries}
            /\ DOMAIN alt_to_canonical = UNION {ValidEntries[i].aliases : i \in DOMAIN ValidEntries}
            /\ Len(igrouped) = Len(grouped_obj.items)
            /\ \A i \in 1..Len(igrouped) :
                /\ igrouped[i].k = grouped_obj.items[i].k
                /\ ~grouped_obj.items[i].islist => igrouped[i].items = <<>>
                /\ \A n \in 1..Len(igrouped[i].items) : igrouped[i].items[n].isdict
                /\ \A r \in Range(grouped_obj.items[i].l) :
                    r.isdict => Count(r, igrouped[i].items) = Count(r, grouped_obj.items[i].l)

\* The program has ended on an index document that is not a mapping, after
\* reading a grouped file with records.
C18_Witness ==
    /\ pc = "exit"
    /\ ~index_obj.isdict
    /\ grouped_obj.isdict
    /\ \E k \in Keys(igrouped) : Items(igrouped, k) # <<>>

\* The records of xs are in ascending order of (identifier, unique_key).
Ordered(xs) == \A i, j \in 1..Len(xs) : i < j => ~RecordKeyLess(xs[j], xs[i])

\* C19: in every group of the merged mapping, of the retitled mapping and
\* of each programme of the split, the records are in ascending order of
\* (identifier, unique_key).
C19_GroupsOrdered ==
    /\ \A i \in 1..Len(merged_by_code) : Ordered(merged_by_code[i].items)
    /\ \A i \in 1..Len(titled_grouped) : Ordered(titled_grouped[i].items)
    /\ \A i \in 1..Len(split) : \A j \in 1..Len(split[i].items) : Ordered(split[i].items[j].items)

(***************************************************************************)
(* Part 9. main() of build_calls_grouped.py run on a list and then on a    *)
(* permutation of it, and the text each run writes.                        *)
(***************************************************************************)

\* json.dumps(dict(grouped), indent=2, ensure_ascii=False) of line 288,
\* with the fields of a record that normalize_one above has.
DumpGrouped(g) ==
    LET field(name, value) == "      " \o JsonStr(name) \o ": " \o JsonStr(value)
        item(it) == "    {\n" \o Join(<<field("identifier", it.identifier),
                                        field("url", it.url),
                                        field("topic_title", it.topic_title),
                                        field("call_title", it.call_title),
                                        field("call_section_title", it.call_section_title),
                                        field("unique_key", it.unique_key),
                                        field("group_key", it.group_key),
                                        field("group_value", it.group_value)>>, ",\n") \o "\n    }"
        list(xs) == IF xs = <<>> THEN "[]"
                    ELSE "[\n" \o Join([i \in 1..Len(xs) |-> item(xs[i])], ",\n") \o "\n  ]"
    IN  IF g = <<>> THEN "{}"
        ELSE "{\n" \o Join([i \in 1..Len(g) |-> "  " \o JsonStr(g[i].k) \o ": " \o list(g[i].items)],
                           ",\n") \o "\n}"

MaxShuffled == 2

\* The permutations of the list xs.
Shuffles(xs) ==
    IF xs = <<>> THEN {<<>>}
    ELSE {[i \in 1..Len(xs) |-> xs[p[i]]] :
            p \in {q \in [1..Len(xs) -> 1..Len(xs)] : \A i, j \in 1..Len(xs) : q[i] = q[j] => i = j}}

\* The input list of the run in progress: the first list until its output
\* is written, then the second.
InputList == IF out_a = "" THEN shuffled[1] ELSE shuffled[2]

\* One iteration of `for res in src` on the next element of the input list.
ReadNext ==
    /\ Len(src) < Len(InputList)
    /\ LoopBody(InputList[Len(src) + 1])

\* The input list is exhausted.
EndOfInput ==
    /\ Len(src) = Len(InputList)
    /\ EndLoop

\* Line 288 of the first run; the second run starts.
WriteFirst ==
    /\ pc = "done"
    /\ out_a = ""
    /\ out_a' = DumpGrouped(grouped)
    /\ pc' = "loop"
    /\ src' = <<>> /\ seen' = {} /\ grouped' = <<>> /\ singleton_keys' = <<>> /\ last' = NoStep
    /\ UNCHANGED <<cfg, grouperVars, indexVars, budgetVars, fetchVars, shuffled, out_b>>

\* Line 288 of the second run.
WriteSecond ==
    /\ pc = "done"
    /\ out_a # ""
    /\ out_b' = DumpGrouped(grouped)
    /\ pc' = "compared"
    /\ UNCHANGED <<pipeVars, grouperVars, indexVars, budgetVars, fetchVars, shuffled, out_a>>

InitOrder ==
    /\ pc = "loop"
    /\ cfg \in Configs
    /\ shuffled \in UNION {{<<a, b>> : b \in Shuffles(a)} : a \in SeqsUpTo(Pool, MaxShuffled)}
    /\ out_a = "" /\ out_b = ""
    /\ src = <<>> /\ seen = {} /\ grouped = <<>> /\ singleton_keys = <<>> /\ last = NoStep
    /\ GroupersIdle /\ IndexIdle /\ BudgetIdle /\ FetchIdle

NextOrder ==
    \/ ReadNext
    \/ EndOfInput
    \/ MergeStep
    \/ SortGroups
    \/ WriteFirst
    \/ WriteSecond

SpecOrder == InitOrder /\ [][NextOrder]_vars

\* C17: the pipeline is deterministic and order-independent: run on a list
\* and on any permutation of it, with the same configuration, it writes the
\* same text (the same group keys in the same order with the same records
\* in the same order).
C17_OrderIndependent == pc = "compared" => out_a = out_b


(***************************************************************************)
(* Part 10. extract_budget of build_calls_grouped.py and of                *)
(* programme_groupers.py.                                                  *)
(*                                                                         *)
(* A float is the decimal m * 10^e it stands for (m not a multiple of 10,  *)
(* zero being 0 * 10^0 whatever its sign), an infinity or NaN; within the  *)
(* precision and range of a double two decimals are the same float exactly *)
(* when they are the same number.  A JSON number is carried as its literal.*)
(***************************************************************************)

NumV(literal) == [t |-> "num", s |-> literal, l |-> <<>>]

Inf(negative) == [k |-> "inf", m |-> IF negative THEN -1 ELSE 1, e |-> 0]

NaN == [k |-> "nan", m |-> 0, e |-> 0]

RECURSIVE Decimal(_, _)
Decimal(m, e) ==
    IF m = 0 THEN [k |-> "fin", m |-> 0, e |-> 0]
    ELSE IF m % 10 = 0 THEN Decimal(m \div 10, e + 1)
    ELSE [k |-> "fin", m |-> m, e |-> e]

\* A digit part of a float literal: digits, with single underscores
\* between digits.
ValidDigits(s) ==
    /\ Len(s) > 0
    /\ \A i \in 1..Len(s) : InStr(Char(s, i), Digits) \/ Char(s, i) = "_"
    /\ Char(s, 1) # "_" /\ Char(s, Len(s)) # "_"
    /\ ~Contains(s, "__")

\* The number written by the digits of s.
RECURSIVE DigitsValue(_)
DigitsValue(s) ==
    IF Len(s) = 0 THEN 0
    ELSE LET c == Char(s, Len(s))
             rest == DigitsValue(SubSeq(s, 1, Len(s) - 1))
         IN  IF c = "_" THEN rest ELSE 10 * rest + (IndexOf(c, Digits) - 1)

\* float(s) for a string: the value, or ValueError.
FloatOfString(s) ==
    LET t        == Lower(Strip(s))
        signed   == Len(t) > 0 /\ Char(t, 1) \in {"+", "-"}
        negative == Len(t) > 0 /\ Char(t, 1) = "-"
        body     == IF signed THEN Tail(t) ELSE t
        parts    == SplitOn(body, "e")
        mant     == SplitOn(parts[1], ".")
        ip       == mant[1]
        fp       == IF Len(mant) = 2 THEN mant[2] ELSE ""
        ex       == IF Len(parts) = 2 THEN parts[2] ELSE "0"
        exsigned == Len(ex) > 0 /\ Char(ex, 1) \in {"+", "-"}
        exdigits == IF exsigned THEN Tail(ex) ELSE ex
        exval    == IF Len(ex) > 0 /\ Char(ex, 1) = "-" THEN 0 - DigitsValue(exdigits)
                    ELSE DigitsValue(exdigits)
        fraclen  == Cardinality({i \in 1..Len(fp) : Char(fp, i) # "_"})
        m        == DigitsValue(ip \o fp)
    IN  IF body \in {"inf", "infinity"} THEN Ret(Inf(negative))
        ELSE IF body = "nan" THEN Ret(NaN)
        ELSE IF /\ Len(parts) <= 2 /\ Len(mant) <= 2
                /\ (ip = "" \/ ValidDigits(ip)) /\ (fp = "" \/ ValidDigits(fp))
                /\ (ip # "" \/ fp # "")
                /\ ValidDigits(exdigits)
             THEN Ret(Decimal(IF negative THEN 0 - m ELSE m, exval - fraclen))
        ELSE Raised("ValueError")

\* float(v): a number is itself, a string is parsed, None raises TypeError.
PyFloat(v) ==
    IF v.t \in {"num", "str"} THEN FloatOfString(v.s) ELSE Raised("TypeError")

\* A variant of _f without the try/except.
BudgetFloatUncaught(v) == PyFloat(v)

\* _f: float(v), 0.0 on any exception.
BudgetFloat(v) == IF PyFloat(v).raised # "" THEN Ret(Decimal(0, 0)) ELSE PyFloat(v)

\* extract_budget of build_calls_grouped.py; an exception of _f would leave
\* the function.
extract_budget(meta) ==
    LET min_c  == BudgetFloat(first(meta.minContribution, NumV("0.0")))
        max_c  == BudgetFloat(first(meta.maxContribution, NumV("0.0")))
        b      == first(meta.budget, NoneV)
        budget == IF b # NoneV THEN BudgetFloat(b) ELSE max_c
    IN  IF min_c.raised # "" THEN min_c
        ELSE IF max_c.raised # "" THEN max_c
        ELSE IF budget.raised # "" THEN budget
        ELSE Ret([min_c |-> min_c.v, max_c |-> max_c.v, budget |-> budget.v,
                  n_projects |-> first(meta.expectedGrants, NoneV)])

\* extract_budget of programme_groupers.py
grouper_extract_budget(meta) ==
    LET min_c  == BudgetFloat(first(meta.minContribution, NumV("0.0")))
        max_c  == BudgetFloat(first(meta.maxContribution, NumV("0.0")))
        b      == first(meta.budget, NoneV)
        budget == IF b # NoneV THEN BudgetFloat(b) ELSE max_c
    IN  IF min_c.raised # "" THEN min_c
        ELSE IF max_c.raised # "" THEN max_c
        ELSE IF budget.raised # "" THEN budget
        ELSE Ret([min_c |-> min_c.v, max_c |-> max_c.v, budget |-> budget.v,
                  n_projects |-> first(meta.expectedGrants, NoneV)])

\* The values of a budget field: missing or null, numbers, strings that
\* float() reads, strings that it rejects, lists.
BudgetValues ==
    { NoneV, NumV("0"), NumV("2500"), NumV("0.5"),
      StrV("1.5e6"), StrV("1500000"), StrV(" 42 "), StrV("+7.50"), StrV(".5"), StrV("1_0"),
      StrV("-3E-2"), StrV("nan"), StrV("-inf"),
      StrV(""), StrV("abc"), StrV("1,5"), StrV("1e"), StrV("1__0"), StrV("1.5.2"), StrV("12 EUR"),
      ListV(<<>>), ListV(<<"2.5">>), ListV(<<"n/a", "7">>) }

BudgetMeta(minContribution, maxContribution, budget, expectedGrants) ==
    [minContribution |-> minContribution, maxContribution |-> maxContribution,
     budget |-> budget, expectedGrants |-> expectedGrants]

BudgetMetas ==
    {BudgetMeta(a, b, c, d) : a \in {NoneV, StrV("1.5e6"), StrV("abc"), ListV(<<"2.5">>)},
                              b \in BudgetValues, c \in BudgetValues,
                              d \in {ListV(<<"3">>)}}

CallExtractBudget ==
    /\ pc = "budget"
    /\ bout = NoCall
    /\ bout' = [op |-> "build_calls_grouped.extract_budget", out |-> extract_budget(bmeta)]
    /\ UNCHANGED <<pc, pipeVars, grouperVars, indexVars, orderVars, fetchVars, bmeta>>

CallGrouperExtractBudget ==
    /\ pc = "budget"
    /\ bout = NoCall
    /\ bout' = [op |-> "programme_groupers.extract_budget", out |-> grouper_extract_budget(bmeta)]
    /\ UNCHANGED <<pc, pipeVars, grouperVars, indexVars, orderVars, fetchVars, bmeta>>

InitBudget ==
    /\ pc = "budget"
    /\ bmeta \in BudgetMetas
    /\ bout = NoCall
    /\ PipelineIdle /\ GroupersIdle /\ IndexIdle /\ OrderIdle /\ FetchIdle

NextBudget == CallExtractBudget \/ CallGrouperExtractBudget

SpecBudget == InitBudget /\ [][NextBudget]_vars


(***************************************************************************)
(* Part 11. Properties of extract_budget (specification SpecBudget).       *)
(***************************************************************************)

\* The numeric texts among the values above and the float each stands for;
\* every other text is not numeric.
Numeric ==
    [x \in {"0", "2500", "0.5", "1.5e6", "1500000", " 42 ", "+7.50", ".5", "1_0", "-3E-2",
            "2.5", "nan", "-inf"} |->
        CASE x = "0"       -> [k |-> "fin", m |-> 0,  e |-> 0]
          [] x = "2500"    -> [k |-> "fin", m |-> 25, e |-> 2]
          [] x = "0.5"     -> [k |-> "fin", m |-> 5,  e |-> -1]
          [] x = "1.5e6"   -> [k |-> "fin", m |-> 15, e |-> 5]
          [] x = "1500000" -> [k |-> "fin", m |-> 15, e |-> 5]
          [] x = " 42 "    -> [k |-> "fin", m |-> 42, e |-> 0]
          [] x = "+7.50"   -> [k |-> "fin", m |-> 75, e |-> -1]
          [] x = ".5"      -> [k |-> "fin", m |-> 5,  e |-> -1]
          [] x = "1_0"     -> [k |-> "fin", m |-> 1,  e |-> 1]
          [] x = "-3E-2"   -> [k |-> "fin", m |-> -3, e |-> -2]
          [] x = "2.5"     -> [k |-> "fin", m |-> 25, e |-> -1]
          [] x = "nan"     -> [k |-> "nan", m |-> 0,  e |-> 0]
          [] x = "-inf"    -> [k |-> "inf", m |-> -1, e |-> 0]]

\* A field has no value: it is missing, null or an empty list.
Absent(v) == v = NoneV \/ v = ListV(<<>>)

\* The number a field is to give: the value of its text (of the first
\* element, for a list) when that is numeric, 0.0 when it is missing or
\* not numeric.
ParsedField(v) ==
    LET text == IF v.t = "list" THEN (IF v.l = <<>> THEN "" ELSE v.l[1]) ELSE v.s
    IN  IF v # NoneV /\ text \in DOMAIN Numeric THEN Numeric[text]
        ELSE [k |-> "fin", m |-> 0, e |-> 0]

\* C20: extract_budget (both modules) never raises and returns three
\* floats: min and max are the parsed minContribution and maxContribution,
\* the indicative budget is the parsed maxContribution when the budget
\* field has no value and the parsed budget when it has one, and every
\* missing or non-numeric value counts as 0.0.
C20_BudgetParsedOrZero ==
    bout # NoCall =>
        /\ bout.out.raised = ""
        /\ bout.out.v.min_c = ParsedField(bmeta.minContribution)
        /\ bout.out.v.max_c = ParsedField(bmeta.maxContribution)
        /\ bout.out.v.budget = IF Absent(bmeta.budget) THEN ParsedField(bmeta.maxContribution)
                               ELSE ParsedField(bmeta.budget)
        /\ \A f \in {bout.out.v.min_c, bout.out.v.max_c, bout.out.v.budget} :
            f.k \in {"fin", "inf", "nan"}

\* extract_budget has been called with minContribution "1.5e6", no budget
\* and a maxContribution that is not numeric.
C20_Witness ==
    /\ bout # NoCall
    /\ bmeta.minContribution = StrV("1.5e6")
    /\ bmeta.budget = NoneV
    /\ bmeta.maxContribution = StrV("12 EUR")
    /\ bout.out.v.min_c = [k |-> "fin", m |-> 15, e |-> 5]
    /\ bout.out.v.budget = [k |-> "fin", m |-> 0, e |-> 0]

(***************************************************************************)
(* Part 12. Singleton reconciliation of build_calls_grouped.py started on  *)
(* a grouped mapping as the grouping loop can leave it (lines 241-284).    *)
(* The wrappers read are not kept here: src stays empty, and seen holds    *)
(* the unique keys of the records grouped.                                 *)
(***************************************************************************)

\* The most groups of a grouped mapping.
MaxMergeGroups == 3

\* The record the grouping loop files under group_value for a wrapper with
\* this identifier and title (lines 219-239); unique_key is the key of a
\* wrapper of type 1 with callccm2Id cc and no language.
Member(identifier, cc, title, group_value) ==
    [NoItem EXCEPT !.identifier = identifier, !.topic_title = title, !.call_title = title,
                   !.unique_key = "1|" \o identifier \o "|" \o cc \o "|",
                   !.group_key = "callTitle", !.group_value = group_value]

\* A group: its key and the titles of its members, in insertion order.
RECURSIVE Members(_, _, _)
Members(k, titles, n) ==
    IF titles = <<>> THEN <<>>
    ELSE <<Member("ID-" \o k, Char(Digits, n), Head(titles), k)>> \o Members(k, Tail(titles), n + 1)

GroupOf(k, titles) == [k |-> k, items |-> Members(k, titles, 1)]

\* The groups a grouped mapping is drawn from: two groups of two with one
\* token in common, a group of six whose sixth member alone has the tokens
\* of the others, the catch-all key as a group of two and as a singleton,
\* and singletons with one token, two tokens and no token.
MergeGroups ==
    { GroupOf("AI", <<"Net data", "Net">>),
      GroupOf("Skills", <<"Data hub", "Hub">>),
      GroupOf("Big", <<"Ion", "Ion", "Ion", "Ion trap", "Ion", "Net data hub">>),
      GroupOf("_other", <<"Net", "Net data">>),
      GroupOf("_other", <<"Data">>),
      GroupOf("S1", <<"Data">>),
      GroupOf("S2", <<"Net data">>),
      GroupOf("S3", <<"Call: net">>),
      GroupOf("S4", <<"An open">>) }

\* The grouped mappings: their keys are distinct.
MergeInputs ==
    {g \in SeqsUpTo(MergeGroups, MaxMergeGroups) :
        g # <<>> /\ \A i, j \in 1..Len(g) : i # j => g[i].k # g[j].k}

\* The command lines: --merge-singletons with the thresholds 0, 0.28, 0.5
\* and 1, and the catch-all key "_other".
MergeConfigs ==
    {Config("callTitle", "callIdentifier", FALSE, "_unknown_group", TRUE, "_other", t[1], t[2]) :
        t \in {<<0, 1>>, <<7, 25>>, <<1, 2>>, <<1, 1>>}}

\* The unique keys of the records of g.
UniqueKeys(g) == UNION {{g[i].items[n].unique_key : n \in 1..Len(g[i].items)} : i \in 1..Len(g)}

\* The grouping loop has ended.
InitMerge ==
    /\ cfg \in MergeConfigs
    /\ pc = "loop"
    /\ src = <<>>
    /\ grouped \in MergeInputs
    /\ seen = UniqueKeys(grouped)
    /\ singleton_keys = <<>>
    /\ last = NoStep
    /\ gin = NoInput
    /\ gres = NoCall
    /\ IndexIdle /\ BudgetIdle /\ OrderIdle /\ FetchIdle

NextMerge ==
    \/ EndLoop
    \/ MergeStep
    \/ SortGroups

SpecMerge == InitMerge /\ [][NextMerge]_vars

(***************************************************************************)
(* Part 13. Properties of singleton reconciliation (specification          *)
(* SpecMerge).                                                             *)
(***************************************************************************)

\* C21: no step of singleton reconciliation selects the catch-all bucket as
\* the similarity merge target of a singleton, however many records the
\* bucket holds: a record appended to the catch-all is one for which
\* _best_target returned None.
C21_CatchAllNeverTarget ==
    last.op = "merge" => last.target # cfg.singletons_key

\* C22: singleton reconciliation is one pass over the singleton keys
\* snapshotted before any merge.  The keys still to process are distinct,
\* are still keys of the mapping and include every group of one member
\* other than the catch-all; the key a step has processed is no longer to
\* process and its group is deleted, whether the record went to a target or
\* to the catch-all; and after the pass every group other than the
\* catch-all bucket has at least 2 members.
C22_SinglePassDeletesSingletons ==
    /\ \A i, j \in 1..Len(singleton_keys) : i # j => singleton_keys[i] # singleton_keys[j]
    /\ Range(singleton_keys) \subseteq Keys(grouped)
    /\ pc = "merge" =>
          \A k \in Keys(grouped) :
              (Len(Items(grouped, k)) = 1 /\ k # cfg.singletons_key) => k \in Range(singleton_keys)
    /\ last.op = "merge" => last.key \notin Keys(grouped) \cup Range(singleton_keys)
    /\ (pc \in {"sort", "done"} /\ cfg.merge_singletons) =>
          \A k \in Keys(grouped) \ {cfg.singletons_key} : Len(Items(grouped, k)) >= 2

\* A pass has ended in which the last singleton went to the catch-all, and
\* it leaves the catch-all with one member next to another group.
C22_Witness ==
    /\ pc = "sort"
    /\ last.op = "merge" /\ last.target = ""
    /\ Len(Items(grouped, cfg.singletons_key)) = 1
    /\ Len(grouped) >= 2

\* The candidates of _best_target in the mapping g: the positions of the
\* groups with at least 2 members whose first 5 members have a token.
CandidateGroups(g) ==
    {i \in 1..Len(g) : Len(g[i].items) >= 2 /\ RepresentativeTokens(g[i].items) # {}}

\* The Jaccard score of the tokens stoks against the group lst, as the pair
\* (intersection size, union size).
Score(stoks, lst) ==
    [n |-> Cardinality(stoks \cap RepresentativeTokens(lst)),
     d |-> Cardinality(stoks \cup RepresentativeTokens(lst))]

\* Score a is less than score b, and the two are equal.
ScoreLess(a, b) == a.n * b.d < b.n * a.d

ScoreEqual(a, b) == a.n * b.d = b.n * a.d

\* C23: when a step of singleton reconciliation finds a target, no candidate
\* group scores higher than the target, and every candidate with the same
\* score as the target comes after it in the iteration order of grouped:
\* among the candidates with the highest score the first one is chosen.
C23_FirstSeenWinsTies ==
    [][pc = "merge" /\ last'.target # "" =>
        \A g \in {grouped} : \A stoks \in {ItemTokens(Items(g, Head(singleton_keys))[1])} :
            \A cands \in {CandidateGroups(g)} :
                /\ last'.target \in {g[i].k : i \in cands}
                /\ \A best \in {Score(stoks, Items(g, last'.target))} :
                      \A i \in cands : \A sc \in {Score(stoks, g[i].items)} :
                          /\ ~ScoreLess(best, sc)
                          /\ ScoreEqual(sc, best) => KeyPos(g, last'.target) <= i]_vars

\* The members a group had before the last step.
ItemsBefore(k) ==
    IF last.op = "merge" /\ k = last.dest
    THEN SubSeq(Items(grouped, k), 1, Len(Items(grouped, k)) - 1)
    ELSE Items(grouped, k)

\* A step has merged a singleton into the first of two groups that had the
\* same score for it.
C23_Witness ==
    /\ last.op = "merge" /\ last.target # "" /\ last.target # last.key
    /\ \E k \in Keys(grouped) \ {last.target} :
        /\ Len(Items(grouped, k)) >= 2
        /\ KeyPos(grouped, last.target) < KeyPos(grouped, k)
        /\ ScoreEqual(Score(ItemTokens(last.item), ItemsBefore(last.target)),
                      Score(ItemTokens(last.item), Items(grouped, k)))

\* C24: a singleton whose title token set is empty has no similarity target
\* and is appended to the catch-all bucket, whatever the candidate groups
\* and the threshold are (a threshold of 0 included); the record is then
\* the last member of the catch-all, unless the singleton's own key is the
\* catch-all key (its group is deleted by the same step).
C24_EmptyTokensToCatchAll ==
    (last.op = "merge" /\ ItemTokens(last.item) = {}) =>
        /\ last.target = ""
        /\ last.dest = cfg.singletons_key
        /\ last.key # cfg.singletons_key =>
            /\ cfg.singletons_key \in Keys(grouped)
            /\ Items(grouped, cfg.singletons_key)[Len(Items(grouped, cfg.singletons_key))] = last.item

\* With a threshold of 0, a singleton without tokens has been appended to
\* the catch-all although a group of at least 2 members was there.
C24_Witness ==
    /\ last.op = "merge" /\ ItemTokens(last.item) = {}
    /\ last.item.topic_title # ""
    /\ cfg.thr_n = 0
    /\ \E k \in Keys(grouped) \ {cfg.singletons_key} : Len(Items(grouped, k)) >= 2
    /\ Items(grouped, cfg.singletons_key)[Len(Items(grouped, cfg.singletons_key))] = last.item

\* The tokens of the titles of the first 5 members of a group.
FirstFiveTokens(lst) ==
    UNION {ItemTokens(lst[i]) : i \in {j \in 1..Len(lst) : j <= 5}}

\* C25: the similarity merge target of a singleton is a group other than
\* the singleton's own group, it has at least 2 members when the singleton
\* is evaluated, it is the group a score over the tokens of only its first
\* 5 members selects, and it is not one of the singleton groups still to
\* process.
C25_TargetIsAnotherLargerGroup ==
    [][pc = "merge" =>
        \A g \in {grouped} : \A sk \in {Head(singleton_keys)} :
            last'.target # "" =>
                /\ last'.target # sk
                /\ last'.target \in Keys(g)
                /\ Len(Items(g, last'.target)) >= 2
                /\ last'.target \notin Range(singleton_keys)
                /\ LET stoks == ItemTokens(Items(g, sk)[1])
                       inter(lst) == Cardinality(stoks \cap FirstFiveTokens(lst))
                       union(lst) == Cardinality(stoks \cup FirstFiveTokens(lst))
                   IN  \A i \in 1..Len(g) :
                          Len(g[i].items) >= 2 =>
                              inter(g[i].items) * union(Items(g, last'.target))
                                  <= inter(Items(g, last'.target)) * union(g[i].items)]_vars

(***************************************************************************)
(* Part 14.  fetch_with_retries of fetch_api_batch.py (lines 254-266).     *)
(*                                                                         *)
(* fetch_from_api talks to the network: what one call of it does is an     *)
(* input of the model.  It either returns a dict or raises.  `calls`       *)
(* records what every call did, in order.                                  *)
(***************************************************************************)

\* Line 31.
RETRY_ATTEMPTS == 2

\* Line 256: range(1, RETRY_ATTEMPTS + 2).
RetryRangeOneMore == 1..(RETRY_ATTEMPTS + 2)

RetryRange == 1..(RETRY_ATTEMPTS + 1)

\* The identifiers fetch_with_retries is called with.
FetchIdentifiers == {"T-1", "T-2"}

\* str() of an HTTP status code (three digits).
StatusStr(n) ==
    Char(Digits, (n \div 100) + 1) \o Char(Digits, ((n \div 10) % 10) + 1)
        \o Char(Digits, (n % 10) + 1)

\* Lines 196-216: what fetch_from_api returns when it does not raise: the
\* error dict of line 212 or the dict of extract_from_metadata.
FetchResults(id) ==
    { [identifier |-> id, error |-> "No results for " \o id],
      [identifier |-> id, title |-> "Call " \o id] }

\* One call of fetch_from_api.  kind is "return" or the class of the
\* exception raised; status is the status code of e.response (0 when there
\* is none); msg is str(e).  _post_search raises HTTPError from
\* raise_for_status, that is for a 4xx or 5xx response.
Outcome(kind, status, msg, result) ==
    [kind |-> kind, status |-> status, msg |-> msg, result |-> result]

FetchOutcomes(id) ==
    { Outcome("return", 0, "", r) : r \in FetchResults(id) }
    \cup { Outcome("HTTPError", 404, "404 Client Error", <<>>),
           Outcome("HTTPError", 500, "500 Server Error", <<>>),
           Outcome("RequestException", 0, "timed out", <<>>),
           Outcome("Exception", 0, "'NoneType' object", <<>>) }

Raises(o) == o.kind # "return"

\* bool(e.response): None is falsy, and a requests Response is truthy
\* exactly when its status code is below 400.
ResponseTruthy(status) == status # 0 /\ status < 400

\* Lines 259-264: the text kept in last_err for a call that raised.
ErrorText(o) ==
    IF o.kind = "HTTPError"
    THEN "HTTP " \o (IF ResponseTruthy(o.status) THEN StatusStr(o.status) ELSE "N/A")
             \o ": " \o o.msg
    ELSE IF o.kind = "RequestException"
    THEN "Request failed: " \o o.msg
    ELSE "Unexpected error: " \o o.msg

\* Lines 256-264: one iteration of the loop up to the return or the except
\* clause.
FetchAttempt ==
    /\ pc = "fetch_try"
    /\ attempt \in RetryRange
    /\ \E o \in FetchOutcomes(call_identifier) :
          /\ calls' = Append(calls, o)
          /\ IF Raises(o)
             THEN /\ last_err' = ErrorText(o)
                  /\ pc' = "fetch_sleep"
                  /\ UNCHANGED fetched
             ELSE /\ fetched' = o.result
                  /\ pc' = "fetch_returned"
                  /\ UNCHANGED last_err
    /\ UNCHANGED <<pipeVars, grouperVars, indexVars, budgetVars, orderVars,
                   call_identifier, attempt>>

\* Line 265: time.sleep(RETRY_SLEEP * attempt), then the next value of the
\* range.
FetchSleep ==
    /\ pc = "fetch_sleep"
    /\ attempt' = attempt + 1
    /\ pc' = "fetch_try"
    /\ UNCHANGED <<pipeVars, grouperVars, indexVars, budgetVars, orderVars,
                   call_identifier, last_err, calls, fetched>>

\* Line 266: the range is exhausted.
FetchGiveUp ==
    /\ pc = "fetch_try"
    /\ attempt \notin RetryRange
    /\ fetched' = [identifier |-> call_identifier,
                   error |-> IF last_err # "" THEN last_err ELSE "Unknown error"]
    /\ pc' = "fetch_returned"
    /\ UNCHANGED <<pipeVars, grouperVars, indexVars, budgetVars, orderVars,
                   call_identifier, attempt, last_err, calls>>

\* Lines 254-256: fetch_with_retries is entered.
InitFetch ==
    /\ pc = "fetch_try"
    /\ call_identifier \in FetchIdentifiers
    /\ attempt = 1
    /\ last_err = ""
    /\ calls = <<>>
    /\ fetched = <<>>
    /\ PipelineIdle /\ GroupersIdle /\ IndexIdle /\ BudgetIdle /\ OrderIdle

NextFetch == FetchAttempt \/ FetchSleep \/ FetchGiveUp

SpecFetch == InitFetch /\ [][NextFetch]_vars

\* The interpreter keeps running the function until it returns.
SpecFetchFair == SpecFetch /\ WF_vars(NextFetch)

(***************************************************************************)
(* Part 15.  Properties of fetch_with_retries.                             *)
(***************************************************************************)

AllRaise(cs) == \A i \in 1..Len(cs) : Raises(cs[i])

\* What holds in every state of a call of fetch_with_retries.
FetchSafety ==
    /\ Len(calls) <= RETRY_ATTEMPTS + 1
    /\ \A i \in 1..Len(calls) : ~Raises(calls[i]) => i = Len(calls)
    /\ pc = "fetch_returned" =>
          \/ /\ calls # <<>>
             /\ ~Raises(calls[Len(calls)])
             /\ fetched = calls[Len(calls)].result
          \/ /\ Len(calls) = RETRY_ATTEMPTS + 1
             /\ AllRaise(calls)
             /\ fetched = [identifier |-> call_identifier,
                           error |-> ErrorText(calls[Len(calls)])]

\* C26: fetch_with_retries returns after at most RETRY_ATTEMPTS + 1 calls of
\* fetch_from_api: no call follows one that did not raise and the result of
\* that call is returned; when every call raised, the dict {identifier,
\* error} with the text of the last error is returned; and the function
\* always returns.
C26_FetchReturnsWithinRetries ==
    []FetchSafety /\ <>(pc = "fetch_returned")

\* All three calls raised and the error dict came back.
C26_Witness ==
    /\ pc = "fetch_returned"
    /\ Len(calls) = RETRY_ATTEMPTS + 1
    /\ AllRaise(calls)
    /\ calls[1].kind = "RequestException"
    /\ calls[Len(calls)].kind = "HTTPError" /\ calls[Len(calls)].status = 500
    /\ fetched.error = "HTTP N/A: 500 Server Error"

(***************************************************************************)
(* Part 16.  Further properties of the singleton reconciliation            *)
(* (SpecMerge), of split_calls_by_cluster.py (SpecIndex) and of the        *)
(* grouping strategies (SpecGroupers).                                     *)
(***************************************************************************)

\* The number of records of g, over all groups.
RECURSIVE RecordCount(_)
RecordCount(g) == IF g = <<>> THEN 0 ELSE Len(Head(g).items) + RecordCount(Tail(g))

\* C27: singleton reconciliation conserves records: after the pass every
\* record that was grouped before it is in exactly one group, so the number
\* of records is the same, whatever the catch-all key is (also a key that
\* is already a group, or a singleton group).
C27_ReconciliationConservesRecords ==
    pc \in {"sort", "done"} =>
        /\ UniqueKeys(grouped) = seen
        /\ RecordCount(grouped) = Cardinality(seen)

\* C28: in anycode_to_info every canonical code resolves to its own entry
\* (anycode_to_info[c].canonical_code = c), also when c is listed as an
\* alias of another entry; so merge_alt_groups leaves a group keyed by a
\* canonical code under that code.
C28_CanonicalResolvesToItself ==
    /\ IndexBuilt =>
          \A c \in DOMAIN code_to_info :
              c \in DOMAIN anycode_to_info /\ anycode_to_info[c].canonical_code = c
    /\ pc \in {"retitle", "split", "written"} =>
          \A k \in Keys(igrouped) : k \in DOMAIN code_to_info => key_resolution[k] = k

\* The records of the mapping g, group after group.
RECURSIVE AllItems(_)
AllItems(g) == IF g = <<>> THEN <<>> ELSE Head(g).items \o AllItems(Tail(g))

\* The records of the split s, programme after programme.
RECURSIVE SplitItems(_)
SplitItems(s) == IF s = <<>> THEN <<>> ELSE AllItems(Head(s).items) \o SplitItems(Tail(s))

\* The lists xs and ys hold the same records, each as often.
SameRecords(xs, ys) ==
    /\ Len(xs) = Len(ys)
    /\ \A i \in 1..Len(xs) : Count(xs[i], xs) = Count(xs[i], ys)

\* The programme split_into_programmes files the group of code under.
ProgrammeOf(code) ==
    IF code \in DOMAIN code_to_info THEN code_to_info[code].programme
    ELSE iargs.unmapped_programme

\* C29: merge_alt_groups, retitle_groups and split_into_programmes conserve
\* records: over all groups (for the split over all programmes) the output
\* of each holds the same records as its input, each as often, also when
\* several codes share a title or an unmapped key equals the title of an
\* entry; every merged group is under the one programme of its code.  The
\* records of retitle_groups are compared as the function leaves them: it
\* sets group_value in place, on the very records of its input.
C29_FunctionsConserveRecords ==
    /\ pc = "retitle" =>
          \A a \in {AllItems(igrouped)} : SameRecords(a, AllItems(merged_by_code))
    /\ pc \in {"split", "written"} =>
          \A m \in {AllItems(merged_by_code)} :
              /\ Len(m) = Len(AllItems(igrouped))
              /\ SameRecords(m, AllItems(titled_grouped))
              /\ pc = "written" =>
                    /\ SameRecords(m, SplitItems(split))
                    /\ \A code \in Keys(merged_by_code) :
                          /\ ProgrammeOf(code) \in Keys(split)
                          /\ \A p \in {Items(split, ProgrammeOf(code))} :
                                /\ TitleOrCode(code) \in Keys(p)
                                /\ \A r \in Range(Items(merged_by_code, code)) :
                                      Count(r, Items(p, TitleOrCode(code)))
                                          >= Count(r, Items(merged_by_code, code))

\* The groups of two codes that share a title, both with records.
SharedTitleGroups ==
    \E c1, c2 \in Keys(merged_by_code) \cap DOMAIN code_to_info :
        /\ c1 # c2
        /\ code_to_info[c1].title = code_to_info[c2].title
        /\ Items(merged_by_code, c1) # <<>> /\ Items(merged_by_code, c2) # <<>>

\* The groups of an unmapped key and of a code whose title is that key, both
\* with records.
UnmappedKeyIsTitle ==
    \E k \in Keys(merged_by_code) \ DOMAIN code_to_info :
        /\ Items(merged_by_code, k) # <<>>
        /\ \E c \in Keys(merged_by_code) \cap DOMAIN code_to_info :
              code_to_info[c].title = k /\ Items(merged_by_code, c) # <<>>

\* The output is written for two groups that retitling and the split put
\* under one key.
C29_Witness ==
    /\ pc = "written"
    /\ SharedTitleGroups \/ UnmappedKeyIsTitle
    /\ \E i \in 1..Len(titled_grouped) : Len(titled_grouped[i].items) >= 2

\* The discriminator unique_record_key joins into the key of an input: the
\* callccm2Id when there is one, else the url when there is one, else none.
DiscriminatorOf(in) ==
    IF in.cc # "" THEN <<"callccm2Id", in.cc>>
    ELSE IF in.url # "" THEN <<"url", in.url>>
    ELSE <<"none", "">>

\* The logical identity of an input: type, identifier, discriminator and
\* language ("und" when there is none).
LogicalIdentity(in) ==
    <<in.typ, in.ident, DiscriminatorOf(in), IF in.lang # "" THEN in.lang ELSE "und">>

\* The inputs a key is compared with: in with another type, identifier,
\* discriminator or language, among them in with its callccm2Id as the url
\* and with its url as the callccm2Id.
Rivals(in) ==
    { [in EXCEPT !.typ = t, !.ident = id, !.cc = d[1], !.url = d[2], !.lang = l] :
        t \in {"1", "2"},
        id \in {in.ident, "SINGLE"},
        d \in { <<"", "">>, <<"77", "">>, <<"", "77">>, <<"", "https://ec.europa.eu/t/1">>,
                <<"78", "https://ec.europa.eu/t/1">>, <<in.url, "">>, <<"", in.cc>> },
        l \in {"", "en", "fr"} }

\* C30: BaseProgrammeGrouper.unique_record_key is injective on the logical
\* identity: a wrapper with a non-blank identifier and a wrapper that
\* differs from it in type, identifier, discriminator kind or value
\* (callccm2Id, url, none) or language never get the same key; a record with
\* callccm2Id X and a record without callccm2Id whose url is X get different
\* keys.
C30_KeyInjectiveOnIdentity ==
    gres.op = "unique_record_key" /\ gin.ident # "" =>
        \A x \in Rivals(gin) :
            LogicalIdentity(x) # LogicalIdentity(gin) =>
                BaseUniqueRecordKey(GWrapper(x)) # gres.out.v

====
